---- MODULE Spec2Model ----
(***************************************************************************)
(* Model of the zodiac-ai backend:                                         *)
(*   - pkg/queue RequestQueue (bounded channel + worker pool) together     *)
(*     with the AI chat handler that enqueues and awaits the reply;        *)
(*   - pkg/circuitbreaker CircuitBreaker;                                  *)
(*   - the GeminiClient, pkg/ratelimiter and the ingress rate limiter;     *)
(*   - the websocket Hub, the friendship service and message paging.       *)
(* Each subsystem has its own specification over the shared variables; the *)
(* variables of the other subsystems stay at their initial values.         *)
(***************************************************************************)
EXTENDS Integers, Sequences, FiniteSets, TLC

(***************************************************************************)
(* Bounds of the model.                                                    *)
(***************************************************************************)
QueueSize == 1      \* cap(q.queue) after NewRequestQueue's defaulting
Workers == 1        \* q.workers
Stoppers == 1       \* concurrent Stop calls
Restops == 1        \* Stop calls made besides those, where Stop is called again
\* handler invocations (one Enqueue each): enough to overfill the queue
NumReq == QueueSize + 1

\* (a plausible slip: make(chan queue.Result), unbuffered)
ReplyCapUnbuffered == 1 - 1

\* make(chan queue.Result, 1) in the handler
ReplyCap == 1

NumCallers == 2     \* goroutines calling CircuitBreaker.Execute
MaxCalls == 4       \* Execute calls they make in all
MaxFailures == 2    \* cb.maxFailures
ResetTimeout == 1   \* cb.resetTimeout, in ticks of the clock
\* the clock runs long enough for two reset timeouts to elapse
MaxTime == 2 * (ResetTimeout + 1)

\* cb.halfOpenMaxReqs as NewCircuitBreaker defaults it
HalfOpenMaxReqs == 1

LimClients == 2     \* goroutines acquiring from the token-bucket limiter
LimMaxTime == 2     \* ticks its clock runs for
MaxRequests == 1    \* maxRequests given to NewRateLimiter
TicksPerToken == 2  \* interval / maxRequests given to NewRateLimiter
MaxSetLimits == 1   \* SetLimit calls made on it

limit == 1          \* rl.limit given to the ingress NewRateLimiter
window == 2         \* rl.window given to it, in ticks
\* requests inside the ingress limiter's allow at once: enough to pass the limit
IngClients == limit + 1
\* calls of allow in all: a full window of them, one more, and one after it
IngCalls == limit + 2
\* its clock runs until a full window lies behind the first request
IngMaxTime == window + 1

SendCap == 2        \* capacity of a client's Send channel (256 in JoinRoom)
MaxBroadcasts == 2  \* messages the connections submit for broadcast, in all

Accepts == 3        \* AcceptFriendRequest calls made on the one friend request
MaxMsgs == 5        \* messages in the messages collection
MaxLimit == 2       \* largest page size asked of FindBySessionID
MaxPosts == 2       \* posts published
LikeCalls == 3      \* LikePost and UnlikePost calls made

Reqs == 1..NumReq
Wrk == 1..Workers
Stp == 1..Stoppers
AllStp == 1..(Stoppers + Restops)
Callers == 1..NumCallers
Acquirers == 1..LimClients
Ingress == 1..IngClients
\* the websocket connections made to the hub: two, in one room or in two
Clients == 1..2
RoomIds == {"a", "b"}
Accepters == 1..Accepts
\* the sender and the receiver of the friend request
Users == {"A", "B"}
PostIDs == 1..MaxPosts
Likers == 1..LikeCalls
\* the users who like and unlike
LikeUsers == {"u", "v"}
\* identifier: c.IP(), or the user id of an authenticated request
Ids == {"ip", "user"}
\* userRequests records: one per map entry and per call holding an orphan
Records == 1..(Cardinality(Ids) + IngClients)

VARIABLES
  \* ---- RequestQueue ----
  queue,           \* contents of q.queue, oldest first
  chanClosed,      \* close(q.queue) has run
  closed,          \* q.closed
  ctxDone,         \* q.cancel() has run (q.ctx is done)
  totalEnqueued, totalProcessed, totalFailed, totalDropped,
  wpc,             \* position of each worker goroutine
  wreq,            \* request a worker holds (0: none)
  wout,            \* what the processor returned to the worker
  spc,             \* position of each Stop call
  \* ---- handler + request ----
  hpc,             \* position of each handler (Enqueue call, then the wait)
  result,          \* what Enqueue returned to the handler
  reply,           \* contents of req.Result
  resultClosed,    \* req.Result has been closed
  \* ---- CircuitBreaker ----
  state,           \* cb.state
  failures,        \* cb.failures
  lastFailureTime, \* cb.lastFailureTime
  halfOpenReqs,    \* cb.halfOpenReqs
  now,             \* the clock read by time.Now / time.Since
  cpc,             \* position of each caller: "idle", or "fn" inside the protected call
  cres,            \* what the caller's last Execute returned
  calls,           \* Execute calls made so far
  actor,           \* the caller of the latest of them
  \* ---- history of the breaker, read by the properties only ----
  sinceSuccess,    \* failures observed since the last success (or Reset)
  admitted,        \* calls let through since the last Open -> HalfOpen transition
  quietProbe,      \* the caller that made that transition with no other call around
  probeFailAt,     \* when a failure last sent the breaker from HalfOpen to Open
  recovered,       \* a quiet probe has succeeded and no MaxFailures failures in a row since
  admittedIn,      \* the state in which beforeRequest let each call in flight through
  \* ---- GeminiClient: one call of its API at a time ----
  gpc,             \* "idle", "call" (at the provider), "backoff" (asleep), "done"
  gkind,           \* the API called: "content", "chat" or "insight"
  gsign,           \* zodiacSign of a chat call
  gattempt,        \* failed provider attempts of the call so far
  gdelay,          \* the latest backoff delay, in seconds
  gret,            \* what the API returned: [text, err]
  gcalls,          \* provider invocations of the call in progress
  gcancelled,      \* the ctx given to the call has been cancelled
  ghttp,           \* the chat handler's response to the call's result
  \* ---- ratelimiter.RateLimiter around a rate.Limiter ----
  rlMaxRequests,   \* rl.maxRequests
  rlInterval,      \* rl.interval, in ticks
  limPer,          \* the limiter's limit, as ticks per token
  limBurst,        \* the limiter's burst
  limTokens,       \* the limiter's tokens, in units of 1/LimScale token
  limLast,         \* when the limiter's tokens were last brought up to date
  limLastEvent,    \* the latest time a reservation acts at
  muLocked,        \* rl.mu is write-locked: "no", or SetLimit's position
  slArg,           \* the arguments of the SetLimit in progress
  lpc,             \* position of each acquirer: "idle", "wait", "sleep"
  lact,            \* timeToAct of a sleeping Wait's reservation
  lresPer,         \* the limit that reservation was made under
  lnow,            \* the clock the limiter reads
  \* ---- history of the limiter, read by the properties only ----
  acquired,        \* per tick, the acquisitions that succeeded then
  seen,            \* the <<ticks per token, burst>> the latest acquisition was granted under
  setLimits,       \* SetLimit calls made so far
  \* ---- middleware.RateLimiter (sliding window per principal) ----
  requests,        \* rl.requests: principal -> its record (0: no entry)
  timestamps,      \* record -> its timestamps slice
  ipc,             \* position of each allow call: "idle", or "got" with the record in hand
  iid,             \* the principal of the call
  iptr,            \* the record the call took from the map
  iret,            \* what the call last returned
  inow,            \* the clock allow and cleanup read
  icalls,          \* calls of allow made so far
  allowed,         \* history: per principal and tick, the calls answered true then
  \* ---- websocket.Hub and its clients ----
  rooms,           \* h.rooms: room id -> set of clients (a partial function)
  hstate,          \* the hub goroutine: "running" or "panicked"
  hevents,         \* per room, the events the hub loop has consumed
  clpc,            \* position of each connection's ReadPump (JoinRoom)
  croom,           \* client.RoomID
  sent,            \* broadcasts the connections have submitted
  send,            \* contents of client.Send, oldest first
  sendClosed,      \* close(client.Send) has run
  \* ---- auth-service friendships ----
  request,         \* the friend_requests document: "none", or its status
  friend_ids,      \* friendships.friend_ids of each user
  pending_sent,    \* friendships.pending_sent of each user
  pending_received, \* friendships.pending_received of each user
  friends_count,   \* users.friends_count of each user
  fpc,             \* position of each AcceptFriendRequest or RejectFriendRequest call
  fuser,           \* its userID argument
  ffinal,          \* it found the request accepted or rejected already
  fret,            \* what it returned (nil: "ok" from an accept, "rejected" from a reject)
  \* ---- chat-service message history ----
  messages,        \* the messages collection: _id -> session_id ("" if no document)
  plimit,          \* the limit of the paging client (0 before its first call)
  pcursor,         \* the cursor it will send next
  pages,           \* the pages it has received, first page first
  \* ---- social-service posts and likes ----
  posts,           \* the posts collection: _id -> document (exists FALSE if none)
  likes,           \* the likes collection: <<post_id, user_id>> records
  kpc,             \* position of each LikePost / UnlikePost call
  kpost,           \* its postID
  kret,            \* what it returned
  feedQuery,       \* the GetFeedQuery of the paging client (SortBy "" before its first call)
  feedCursor,      \* the cursor it will send next
  feedPages        \* the pages it has received, first page first

qvars == <<queue, chanClosed, closed, ctxDone, totalEnqueued,
           totalProcessed, totalFailed, totalDropped, wpc, wreq, wout, spc>>
hvars == <<hpc, result, reply>>
\* (the channel state no statement of the package writes: it is left alone by
\* every action, of the queue and of the handlers too)
rcvars == <<resultClosed>>
counters == <<totalEnqueued, totalProcessed, totalFailed, totalDropped>>

cbstate == <<state, failures, lastFailureTime, halfOpenReqs>>
cbhist == <<sinceSuccess, admitted, quietProbe, probeFailAt, recovered, admittedIn>>
cbvars == <<cbstate, now, cpc, cres, calls, actor, cbhist>>

gvars == <<gpc, gkind, gsign, gattempt, gdelay, gret, gcalls, gcancelled, ghttp>>

limiter == <<limPer, limBurst, limTokens, limLast, limLastEvent>>
rlfields == <<rlMaxRequests, rlInterval>>
lhist == <<acquired, seen, setLimits>>
lvars == <<rlfields, limiter, muLocked, slArg, lpc, lact, lresPer,
           lnow, lhist>>

ivars == <<requests, timestamps, ipc, iid, iptr, iret, inow, icalls, allowed>>

hubvars == <<rooms, hstate, hevents, clpc, croom, sent, send, sendClosed>>

fvars == <<request, friend_ids, pending_sent, pending_received,
           friends_count, fpc, fuser, ffinal, fret>>

pvars == <<messages, plimit, pcursor, pages>>

svars == <<posts, likes, kpc, kpost, kret, feedQuery, feedCursor, feedPages>>

vars == <<qvars, hvars, rcvars, cbvars, gvars, lvars, ivars, hubvars, fvars, pvars, svars>>

\* what each subsystem leaves alone
nonQueue == <<rcvars, cbvars, gvars, lvars, ivars, hubvars, fvars, pvars, svars>>
nonBreaker == <<rcvars, qvars, hvars, gvars, lvars, ivars, hubvars, fvars, pvars, svars>>
nonClient == <<rcvars, qvars, hvars, cbvars, lvars, ivars, hubvars, fvars, pvars, svars>>
nonLimiter == <<rcvars, qvars, hvars, cbvars, gvars, ivars, hubvars, fvars, pvars, svars>>
nonIngress == <<rcvars, qvars, hvars, cbvars, gvars, lvars, hubvars, fvars, pvars, svars>>
nonHub == <<rcvars, qvars, hvars, cbvars, gvars, lvars, ivars, fvars, pvars, svars>>
nonFriends == <<rcvars, qvars, hvars, cbvars, gvars, lvars, ivars, hubvars, pvars, svars>>
nonPaging == <<rcvars, qvars, hvars, cbvars, gvars, lvars, ivars, hubvars, fvars, svars>>
nonSocial == <<rcvars, qvars, hvars, cbvars, gvars, lvars, ivars, hubvars, fvars, pvars>>

(***************************************************************************)
(* NewRequestQueue + the handlers not yet called.                          *)
(***************************************************************************)
QInit ==
  /\ queue = <<>>
  /\ chanClosed = FALSE
  /\ closed = FALSE
  /\ ctxDone = FALSE
  /\ totalEnqueued = 0
  /\ totalProcessed = 0
  /\ totalFailed = 0
  /\ totalDropped = 0
  /\ wpc = [w \in Wrk |-> "off"]
  /\ wreq = [w \in Wrk |-> 0]
  /\ wout = [w \in Wrk |-> "none"]
  /\ spc = [s \in AllStp |-> "init"]
  /\ hpc = [r \in Reqs |-> "new"]
  /\ result = [r \in Reqs |-> "none"]
  /\ reply = [r \in Reqs |-> <<>>]
  /\ resultClosed = [r \in Reqs |-> FALSE]

(***************************************************************************)
(* RequestQueue.Start: under q.mu, a closed queue is not started.          *)
(***************************************************************************)
\* (called once at boot; after Stop it finds q.closed and spawns nothing)
Start ==
  /\ \A w \in Wrk : wpc[w] \in {"off", "stopped"}
  /\ wpc' = IF closed THEN wpc ELSE [w \in Wrk |-> "idle"]
  /\ UNCHANGED <<queue, chanClosed, closed, ctxDone, counters, wreq, wout, spc, hvars>>
  /\ UNCHANGED nonQueue

(***************************************************************************)
(* RequestQueue.Enqueue, in its three critical sections.                   *)
(***************************************************************************)
\* (a plausible slip: Enqueue without the q.closed test)
EnqCheckIgnoresClosed(r) ==
  /\ hpc[r] = "new"
  /\ \A p \in Reqs : p < r => hpc[p] # "new"
  /\ hpc' = [hpc EXCEPT ![r] = "offer"]
  /\ UNCHANGED <<qvars, result, reply>>
  /\ UNCHANGED nonQueue

\* q.mu.RLock(); if q.closed { return ErrQueueClosed }; q.mu.RUnlock()
\* (handlers are interchangeable: they are taken in the order of their index)
EnqCheck(r) ==
  /\ hpc[r] = "new"
  /\ \A p \in Reqs : p < r => hpc[p] # "new"
  /\ IF closed
       THEN /\ hpc' = [hpc EXCEPT ![r] = "closed500"]
            /\ result' = [result EXCEPT ![r] = "ErrQueueClosed"]
       ELSE /\ hpc' = [hpc EXCEPT ![r] = "offer"]
            /\ UNCHANGED result
  /\ UNCHANGED <<qvars, reply>>
  /\ UNCHANGED nonQueue

\* (a plausible slip: the offer made without regard to the capacity)
EnqOfferUnbounded(r) ==
  /\ hpc[r] = "offer"
  /\ IF chanClosed
       THEN /\ hpc' = [hpc EXCEPT ![r] = "panicked"]
            /\ UNCHANGED queue
       ELSE /\ queue' = Append(queue, r)
            /\ hpc' = [hpc EXCEPT ![r] = "countEnq"]
  /\ UNCHANGED <<chanClosed, closed, ctxDone, counters, wpc, wreq, wout, spc,
                 result, reply>>
  /\ UNCHANGED nonQueue

\* select { case q.queue <- req: ... default: ... }
\* A send on a closed channel panics, in a select as anywhere else.
EnqOffer(r) ==
  /\ hpc[r] = "offer"
  /\ IF chanClosed
       THEN /\ hpc' = [hpc EXCEPT ![r] = "panicked"]
            /\ UNCHANGED queue
       ELSE IF Len(queue) < QueueSize
         THEN /\ queue' = Append(queue, r)
              /\ hpc' = [hpc EXCEPT ![r] = "countEnq"]
         ELSE /\ hpc' = [hpc EXCEPT ![r] = "countDrop"]
              /\ UNCHANGED queue
  /\ UNCHANGED <<chanClosed, closed, ctxDone, counters, wpc, wreq, wout, spc,
                 result, reply>>
  /\ UNCHANGED nonQueue

\* q.mu.Lock(); q.totalEnqueued++; q.mu.Unlock(); return nil
EnqCountEnq(r) ==
  /\ hpc[r] = "countEnq"
  /\ totalEnqueued' = totalEnqueued + 1
  /\ result' = [result EXCEPT ![r] = "nil"]
  /\ hpc' = [hpc EXCEPT ![r] = "waiting"]
  /\ UNCHANGED <<queue, chanClosed, closed, ctxDone, totalProcessed,
                 totalFailed, totalDropped, wpc, wreq, wout, spc, reply>>
  /\ UNCHANGED nonQueue

\* q.mu.Lock(); q.totalDropped++; q.mu.Unlock(); return ErrQueueFull
EnqCountDrop(r) ==
  /\ hpc[r] = "countDrop"
  /\ totalDropped' = totalDropped + 1
  /\ result' = [result EXCEPT ![r] = "ErrQueueFull"]
  /\ hpc' = [hpc EXCEPT ![r] = "busy429"]
  /\ UNCHANGED <<queue, chanClosed, closed, ctxDone, totalEnqueued,
                 totalProcessed, totalFailed, wpc, wreq, wout, spc, reply>>
  /\ UNCHANGED nonQueue

(***************************************************************************)
(* The handler after a successful Enqueue: select on the reply channel and *)
(* on the 60 s deadline derived from the request context.                  *)
(***************************************************************************)
\* (a plausible slip: a result is also taken up after the deadline has answered)
HandlerRecvLate(r) ==
  /\ hpc[r] \in {"waiting", "timeout408"}
  /\ reply[r] # <<>>
  /\ reply' = [reply EXCEPT ![r] = Tail(@)]
  /\ hpc' = [hpc EXCEPT ![r] = "answered"]
  /\ UNCHANGED <<qvars, result>>
  /\ UNCHANGED nonQueue

\* case result := <-resultChan
HandlerRecv(r) ==
  /\ hpc[r] = "waiting"
  /\ reply[r] # <<>>
  /\ reply' = [reply EXCEPT ![r] = Tail(@)]
  /\ hpc' = [hpc EXCEPT ![r] = "answered"]
  /\ UNCHANGED <<qvars, result>>
  /\ UNCHANGED nonQueue

\* case <-ctx.Done(): 408
HandlerDeadline(r) ==
  /\ hpc[r] = "waiting"
  /\ hpc' = [hpc EXCEPT ![r] = "timeout408"]
  /\ UNCHANGED <<qvars, result, reply>>
  /\ UNCHANGED nonQueue

(***************************************************************************)
(* A send of v on req.Result: into the buffer if it has room, else handed  *)
(* to a handler blocked in its receive (an unbuffered channel).            *)
(***************************************************************************)
CanDeliver(r) ==
  \/ Len(reply[r]) < ReplyCap
  \/ (ReplyCap = 0 /\ hpc[r] = "waiting")

Deliver(r, v) ==
  IF Len(reply[r]) < ReplyCap
    THEN /\ reply' = [reply EXCEPT ![r] = Append(@, v)]
         /\ UNCHANGED hpc
    ELSE /\ hpc' = [hpc EXCEPT ![r] = "answered"]
         /\ UNCHANGED reply

(***************************************************************************)
(* RequestQueue.worker and processRequest.                                 *)
(***************************************************************************)
\* case req, ok := <-q.queue (ok)
\* (idle workers are interchangeable: the one of least index takes the step)
WorkerDequeue(w) ==
  /\ wpc[w] = "idle"
  /\ \A v \in Wrk : v < w => wpc[v] # "idle"
  /\ queue # <<>>
  /\ wreq' = [wreq EXCEPT ![w] = Head(queue)]
  /\ queue' = Tail(queue)
  /\ wpc' = [wpc EXCEPT ![w] = "picked"]
  /\ UNCHANGED <<chanClosed, closed, ctxDone, counters, wout, spc, hvars>>
  /\ UNCHANGED nonQueue

\* (a plausible slip: the worker leaves as soon as the channel is closed)
WorkerQueueClosedEarly(w) ==
  /\ wpc[w] = "idle"
  /\ \A v \in Wrk : v < w => wpc[v] # "idle"
  /\ chanClosed
  /\ wpc' = [wpc EXCEPT ![w] = "stopped"]
  /\ UNCHANGED <<queue, chanClosed, closed, ctxDone, counters, wreq, wout, spc, hvars>>
  /\ UNCHANGED nonQueue

\* case req, ok := <-q.queue (!ok): closed and drained
WorkerQueueClosed(w) ==
  /\ wpc[w] = "idle"
  /\ \A v \in Wrk : v < w => wpc[v] # "idle"
  /\ queue = <<>>
  /\ chanClosed
  /\ wpc' = [wpc EXCEPT ![w] = "stopped"]
  /\ UNCHANGED <<queue, chanClosed, closed, ctxDone, counters, wreq, wout, spc, hvars>>
  /\ UNCHANGED nonQueue

\* case <-q.ctx.Done()
WorkerCtxDone(w) ==
  /\ wpc[w] = "idle"
  /\ \A v \in Wrk : v < w => wpc[v] # "idle"
  /\ ctxDone
  /\ wpc' = [wpc EXCEPT ![w] = "stopped"]
  /\ UNCHANGED <<queue, chanClosed, closed, ctxDone, counters, wreq, wout, spc, hvars>>
  /\ UNCHANGED nonQueue

\* (a plausible slip: the cancelled request is counted and processed all the same)
WorkerCheckCtxNoReturn(w) ==
  /\ wpc[w] = "picked"
  /\ \E ctxErr \in BOOLEAN :
       IF ctxErr
         THEN /\ totalFailed' = totalFailed + 1
              /\ wpc' = [wpc EXCEPT ![w] = "proc"]
         ELSE /\ wpc' = [wpc EXCEPT ![w] = "proc"]
              /\ UNCHANGED totalFailed
  /\ UNCHANGED <<queue, chanClosed, closed, ctxDone, totalEnqueued,
                 totalProcessed, totalDropped, wreq, wout, spc, hvars>>
  /\ UNCHANGED nonQueue

\* if req.Context.Err() != nil { q.totalFailed++ ... } else q.processor(...)
\* ctxErr: whether the client has gone (the request context is cancelled) by now
WorkerCheckCtx(w) ==
  /\ wpc[w] = "picked"
  /\ \E ctxErr \in BOOLEAN :
       IF ctxErr
         THEN /\ totalFailed' = totalFailed + 1
              /\ wpc' = [wpc EXCEPT ![w] = "sendCancel"]
         ELSE /\ wpc' = [wpc EXCEPT ![w] = "proc"]
              /\ UNCHANGED totalFailed
  /\ UNCHANGED <<queue, chanClosed, closed, ctxDone, totalEnqueued,
                 totalProcessed, totalDropped, wreq, wout, spc, hvars>>
  /\ UNCHANGED nonQueue

\* result, err := q.processor(...); q.mu.Lock(); counter++; q.mu.Unlock()
WorkerProcessed(w) ==
  /\ wpc[w] = "proc"
  /\ \E out \in {"ok", "err"} :
       /\ wout' = [wout EXCEPT ![w] = out]
       /\ IF out = "err"
            THEN /\ totalFailed' = totalFailed + 1
                 /\ UNCHANGED totalProcessed
            ELSE /\ totalProcessed' = totalProcessed + 1
                 /\ UNCHANGED totalFailed
  /\ wpc' = [wpc EXCEPT ![w] = "send"]
  /\ UNCHANGED <<queue, chanClosed, closed, ctxDone, totalEnqueued,
                 totalDropped, wreq, spc, hvars>>
  /\ UNCHANGED nonQueue

\* (a plausible slip: the recovered panic is not counted)
WorkerPanicUncounted(w) ==
  /\ wpc[w] = "proc"
  /\ wpc' = [wpc EXCEPT ![w] = "sendPanic"]
  /\ UNCHANGED <<queue, chanClosed, closed, ctxDone, totalEnqueued, totalFailed,
                 totalProcessed, totalDropped, wreq, wout, spc, hvars>>
  /\ UNCHANGED nonQueue

\* the processor panics: recover(); q.totalFailed++
WorkerPanic(w) ==
  /\ wpc[w] = "proc"
  /\ totalFailed' = totalFailed + 1
  /\ wpc' = [wpc EXCEPT ![w] = "sendPanic"]
  /\ UNCHANGED <<queue, chanClosed, closed, ctxDone, totalEnqueued,
                 totalProcessed, totalDropped, wreq, wout, spc, hvars>>
  /\ UNCHANGED nonQueue

\* select { case req.Result <- Result{...}: case <-time.After(5 * time.Second): }
\* the timer fires only when the send could not proceed for 5 s
WorkerSend(w) ==
  /\ wpc[w] = "send"
  /\ IF CanDeliver(wreq[w])
       THEN Deliver(wreq[w], wout[w])
       ELSE UNCHANGED <<hpc, reply>>
  /\ wpc' = [wpc EXCEPT ![w] = "idle"]
  /\ wreq' = [wreq EXCEPT ![w] = 0]
  /\ wout' = [wout EXCEPT ![w] = "none"]
  /\ UNCHANGED <<queue, chanClosed, closed, ctxDone, counters, spc,
                 result>>
  /\ UNCHANGED nonQueue

\* req.Result <- Result{Error: req.Context.Err()}  (a plain, blocking send)
WorkerSendCancel(w) ==
  /\ wpc[w] = "sendCancel"
  /\ CanDeliver(wreq[w])
  /\ Deliver(wreq[w], "ctxErr")
  /\ wpc' = [wpc EXCEPT ![w] = "idle"]
  /\ wreq' = [wreq EXCEPT ![w] = 0]
  /\ UNCHANGED <<queue, chanClosed, closed, ctxDone, counters, wout, spc,
                 result>>
  /\ UNCHANGED nonQueue

\* in the deferred recover: req.Result <- Result{Error: "internal error ..."}
WorkerSendPanic(w) ==
  /\ wpc[w] = "sendPanic"
  /\ CanDeliver(wreq[w])
  /\ Deliver(wreq[w], "internal")
  /\ wpc' = [wpc EXCEPT ![w] = "idle"]
  /\ wreq' = [wreq EXCEPT ![w] = 0]
  /\ UNCHANGED <<queue, chanClosed, closed, ctxDone, counters, wout, spc,
                 result>>
  /\ UNCHANGED nonQueue

(***************************************************************************)
(* RequestQueue.Stop.                                                      *)
(***************************************************************************)
\* (a plausible slip: q.closed is set without being tested first)
StopMarkUntested(s) ==
  /\ spc[s] = "init"
  /\ \A t \in AllStp : t < s => spc[t] # "init"
  /\ spc' = [spc EXCEPT ![s] = "close"]
  /\ closed' = TRUE
  /\ UNCHANGED <<queue, chanClosed, ctxDone, counters, wpc, wreq, wout, hvars>>
  /\ UNCHANGED nonQueue

\* q.mu.Lock(); if q.closed { return nil }; q.closed = true; q.mu.Unlock()
\* (Stop calls are interchangeable: they are taken in the order of their index)
StopMark(s) ==
  /\ spc[s] = "init"
  /\ \A t \in AllStp : t < s => spc[t] # "init"
  /\ IF closed
       THEN /\ spc' = [spc EXCEPT ![s] = "nil"]
            /\ UNCHANGED closed
       ELSE /\ spc' = [spc EXCEPT ![s] = "close"]
            /\ closed' = TRUE
  /\ UNCHANGED <<queue, chanClosed, ctxDone, counters, wpc, wreq, wout, hvars>>
  /\ UNCHANGED nonQueue

\* close(q.queue)
StopClose(s) ==
  /\ spc[s] = "close"
  /\ chanClosed' = TRUE
  /\ spc' = [spc EXCEPT ![s] = "wait"]
  /\ UNCHANGED <<queue, closed, ctxDone, counters, wpc, wreq, wout, hvars>>
  /\ UNCHANGED nonQueue

\* case <-done: q.wg.Wait() returned
StopDone(s) ==
  /\ spc[s] = "wait"
  /\ \A w \in Wrk : wpc[w] \in {"off", "stopped"}
  /\ spc' = [spc EXCEPT ![s] = "nil"]
  /\ UNCHANGED <<queue, chanClosed, closed, ctxDone, counters, wpc, wreq, wout, hvars>>
  /\ UNCHANGED nonQueue

\* case <-time.After(timeout): q.cancel(); return error
StopTimeout(s) ==
  /\ spc[s] = "wait"
  /\ ctxDone' = TRUE
  /\ spc' = [spc EXCEPT ![s] = "timeout"]
  /\ UNCHANGED <<queue, chanClosed, closed, counters, wpc, wreq, wout, hvars>>
  /\ UNCHANGED nonQueue

QNext ==
  \/ Start
  \/ \E r \in Reqs : EnqCheck(r)
  \/ \E r \in Reqs : EnqOffer(r)
  \/ \E r \in Reqs : EnqCountEnq(r)
  \/ \E r \in Reqs : EnqCountDrop(r)
  \/ \E r \in Reqs : HandlerRecv(r)
  \/ \E r \in Reqs : HandlerDeadline(r)
  \/ \E w \in Wrk : WorkerDequeue(w)
  \/ \E w \in Wrk : WorkerQueueClosed(w)
  \/ \E w \in Wrk : WorkerCtxDone(w)
  \/ \E w \in Wrk : WorkerCheckCtx(w)
  \/ \E w \in Wrk : WorkerProcessed(w)
  \/ \E w \in Wrk : WorkerPanic(w)
  \/ \E w \in Wrk : WorkerSend(w)
  \/ \E w \in Wrk : WorkerSendCancel(w)
  \/ \E w \in Wrk : WorkerSendPanic(w)
  \/ \E s \in Stp : StopMark(s)
  \/ \E s \in Stp : StopClose(s)
  \/ \E s \in Stp : StopDone(s)
  \/ \E s \in Stp : StopTimeout(s)

(***************************************************************************)
(* CircuitBreaker.                                                         *)
(***************************************************************************)
\* the zero time.Time: further back than any reset timeout
ZeroTime == 0 - (ResetTimeout + 1)

\* NewCircuitBreaker
CBInit ==
  /\ state = "closed"
  /\ failures = 0
  /\ lastFailureTime = ZeroTime
  /\ halfOpenReqs = 0
  /\ now = 0
  /\ cpc = [c \in Callers |-> "idle"]
  /\ cres = [c \in Callers |-> "none"]
  /\ calls = 0
  /\ actor = 0
  /\ sinceSuccess = 0
  /\ admitted = 0
  /\ quietProbe = 0
  /\ probeFailAt = 0 - 1
  /\ recovered = FALSE
  /\ admittedIn = [c \in Callers |-> "none"]

\* (a plausible slip: >= for >)
ElapsedInclusive == now - lastFailureTime >= ResetTimeout

\* time.Since(cb.lastFailureTime) > cb.resetTimeout
Elapsed == now - lastFailureTime > ResetTimeout

\* the caller goes on to fn() / Execute returns err without calling fn
Admit(c) ==
  /\ cpc' = [cpc EXCEPT ![c] = "fn"]
  /\ admittedIn' = [admittedIn EXCEPT ![c] =
                      IF state = "closed" THEN "closed" ELSE "half-open"]
  /\ UNCHANGED cres

Reject(c, err) ==
  /\ cres' = [cres EXCEPT ![c] = err]
  /\ UNCHANGED <<cpc, admittedIn>>

\* Execute up to the call of fn: beforeRequest under cb.mu
BeforeRequest(c) ==
  /\ cpc[c] = "idle"
  /\ calls < MaxCalls
  /\ calls' = calls + 1
  /\ actor' = c
  /\ IF state = "closed"
       THEN /\ Admit(c)
            /\ quietProbe' = 0
            /\ UNCHANGED <<state, halfOpenReqs, admitted>>
       ELSE IF state = "open"
         THEN IF Elapsed
           THEN /\ state' = "half-open"
                /\ halfOpenReqs' = 0
                /\ Admit(c)
                /\ admitted' = 1
                /\ quietProbe' = IF \A d \in Callers : cpc[d] = "idle" THEN c ELSE 0
           ELSE /\ Reject(c, "ErrCircuitOpen")
                /\ quietProbe' = 0
                /\ UNCHANGED <<state, halfOpenReqs, admitted>>
         ELSE IF halfOpenReqs >= HalfOpenMaxReqs
           THEN /\ Reject(c, "ErrTooManyRequests")
                /\ quietProbe' = 0
                /\ UNCHANGED <<state, halfOpenReqs, admitted>>
           ELSE /\ halfOpenReqs' = halfOpenReqs + 1
                /\ Admit(c)
                /\ admitted' = admitted + 1
                /\ quietProbe' = 0
                /\ UNCHANGED state
  /\ UNCHANGED <<failures, lastFailureTime, now, sinceSuccess, probeFailAt, recovered>>
  /\ UNCHANGED nonBreaker

\* afterRequest, err != nil (a plausible slip: a failed probe leaves the old stamp)
OnFailureKeepsStamp ==
  /\ failures' = failures + 1
  /\ lastFailureTime' = IF state = "half-open" THEN lastFailureTime ELSE now
  /\ state' = IF state = "half-open" THEN "open"
               ELSE IF failures + 1 >= MaxFailures THEN "open"
               ELSE state
  /\ UNCHANGED halfOpenReqs

\* afterRequest, err != nil
OnFailure ==
  /\ failures' = failures + 1
  /\ lastFailureTime' = now
  /\ state' = IF state = "half-open" THEN "open"
               ELSE IF failures + 1 >= MaxFailures THEN "open"
               ELSE state
  /\ UNCHANGED halfOpenReqs

\* afterRequest, err == nil (a plausible slip: the counter survives the probe)
OnSuccessKeepsFailures ==
  IF state = "half-open"
    THEN /\ state' = "closed"
         /\ halfOpenReqs' = 0
         /\ UNCHANGED failures
    ELSE IF state = "closed"
      THEN /\ failures' = 0
           /\ UNCHANGED <<state, halfOpenReqs>>
      ELSE UNCHANGED <<state, failures, halfOpenReqs>>

\* afterRequest, err == nil (a plausible slip: no reset of the counter in Closed)
OnSuccessNoReset ==
  IF state = "half-open"
    THEN /\ state' = "closed"
         /\ failures' = 0
         /\ halfOpenReqs' = 0
    ELSE UNCHANGED <<state, failures, halfOpenReqs>>

\* afterRequest, err == nil
OnSuccess ==
  IF state = "half-open"
    THEN /\ state' = "closed"
         /\ failures' = 0
         /\ halfOpenReqs' = 0
    ELSE IF state = "closed"
      THEN /\ failures' = 0
           /\ UNCHANGED <<state, halfOpenReqs>>
      ELSE UNCHANGED <<state, failures, halfOpenReqs>>

\* fn returns (failed: err != nil), then afterRequest(err) under cb.mu
AfterRequest(c, failed) ==
  /\ cpc[c] = "fn"
  /\ cpc' = [cpc EXCEPT ![c] = "idle"]
  /\ cres' = [cres EXCEPT ![c] = IF failed THEN "fail" ELSE "ok"]
  /\ IF failed
       THEN /\ OnFailure
            /\ sinceSuccess' = sinceSuccess + 1
            /\ probeFailAt' = IF state = "half-open" THEN now ELSE probeFailAt
            /\ recovered' = (recovered /\ sinceSuccess + 1 < MaxFailures)
       ELSE /\ OnSuccess
            /\ UNCHANGED lastFailureTime
            /\ sinceSuccess' = 0
            /\ UNCHANGED probeFailAt
            /\ recovered' = (recovered \/ quietProbe = c)
  /\ admitted' = IF state' = "half-open" THEN admitted ELSE 0
  /\ quietProbe' = 0
  /\ admittedIn' = [admittedIn EXCEPT ![c] = "none"]
  /\ UNCHANGED <<now, calls, actor>>
  /\ UNCHANGED nonBreaker

\* (a plausible slip: Reset closes the breaker and keeps the failure count)
ResetKeepsFailures ==
  /\ state # "closed" \/ halfOpenReqs # 0
  /\ state' = "closed"
  /\ halfOpenReqs' = 0
  /\ sinceSuccess' = 0
  /\ admitted' = 0
  /\ quietProbe' = 0
  /\ probeFailAt' = 0 - 1
  /\ recovered' = FALSE
  /\ UNCHANGED <<failures, lastFailureTime, now, cpc, cres, calls, actor, admittedIn>>
  /\ UNCHANGED nonBreaker

\* CircuitBreaker.Reset
Reset ==
  /\ state # "closed" \/ failures # 0 \/ halfOpenReqs # 0
  /\ state' = "closed"
  /\ failures' = 0
  /\ halfOpenReqs' = 0
  /\ sinceSuccess' = 0
  /\ admitted' = 0
  /\ quietProbe' = 0
  /\ probeFailAt' = 0 - 1
  /\ recovered' = FALSE
  /\ UNCHANGED <<lastFailureTime, now, cpc, cres, calls, actor, admittedIn>>
  /\ UNCHANGED nonBreaker

\* time passes
Tick ==
  /\ now < MaxTime
  /\ now' = now + 1
  /\ UNCHANGED <<cbstate, cpc, cres, calls, actor, cbhist>>
  /\ UNCHANGED nonBreaker

CBNext ==
  \/ \E c \in Callers : BeforeRequest(c)
  \/ \E c \in Callers : \E failed \in BOOLEAN : AfterRequest(c, failed)
  \/ Reset
  \/ Tick

(***************************************************************************)
(* GeminiClient.                                                           *)
(***************************************************************************)
maxRetries == 3
\* c.baseDelay, in seconds
baseDelay == 1

Zodiac == {"Aries", "Taurus", "Gemini", "Cancer", "Leo", "Virgo", "Libra",
           "Scorpio", "Sagittarius", "Capricorn", "Aquarius", "Pisces"}
\* zodiacSign as callers may pass it: the twelve tags, an unknown one, none
Signs == Zodiac \cup {"Ophiuchus", ""}
\* result.Text() of a provider answer
Texts == {"", "live"}

\* the table of getFallbackChatResponse
fallbacks ==
  "Aries" :> "Halo! Maaf nih, lagi ada gangguan sebentar. Tapi aku di sini kok, siap dengerin kamu." @@
  "Taurus" :> "Hai! Ada yang bisa aku bantu? Cerita aja, aku dengerin." @@
  "Gemini" :> "Halo! Gimana kabarnya? Ada yang mau diobrolin?" @@
  "Cancer" :> "Hai! Aku di sini kalau kamu mau cerita atau butuh temen ngobrol." @@
  "Leo" :> "Halo! Ada yang bisa aku bantu hari ini?" @@
  "Virgo" :> "Hai! Cerita aja kalau ada yang mau dibahas, aku siap dengerin." @@
  "Libra" :> "Halo! Gimana hari ini? Ada yang mau diceritain?" @@
  "Scorpio" :> "Hai! Aku di sini kalau kamu butuh temen ngobrol." @@
  "Sagittarius" :> "Halo! Ada yang mau dibahas? Cerita aja santai." @@
  "Capricorn" :> "Hai! Gimana kabarnya? Aku siap dengerin kalau ada yang mau diceritain." @@
  "Aquarius" :> "Halo! Ada yang bisa aku bantu? Ngobrol aja santai." @@
  "Pisces" :> "Hai! Aku di sini kalau kamu butuh temen cerita."

\* (a plausible slip: the lookup without its ok test yields Go's zero string)
getFallbackChatResponseNoDefault(zodiacSign) ==
  IF zodiacSign \in DOMAIN fallbacks THEN fallbacks[zodiacSign] ELSE ""

getFallbackChatResponse(zodiacSign) ==
  IF zodiacSign \in DOMAIN fallbacks
    THEN fallbacks[zodiacSign]
    ELSE "Halo! Ada yang bisa aku bantu? Cerita aja santai."

getFallbackInsight ==
  "Setiap percakapan adalah cerminan dari perjalanan hidup kita. Dalam berbagi cerita dan perasaan, kita menemukan kekuatan untuk terus maju. Ingatlah bahwa setiap tantangan adalah kesempatan untuk tumbuh, dan setiap emosi yang kita rasakan adalah bagian dari kemanusiaan kita. Teruslah berbicara, teruslah berbagi, dan teruslah percaya bahwa hari esok membawa harapan baru."

NoResponse == [status |-> 0, message |-> "", response |-> ""]

GInit ==
  /\ gpc = "idle"
  /\ gkind = "none"
  /\ gsign = ""
  /\ gattempt = 0
  /\ gdelay = 0
  /\ gret = [text |-> "", err |-> "none"]
  /\ gcalls = 0
  /\ gcancelled = FALSE
  /\ ghttp = NoResponse

\* what GenerateChatResponse / GenerateInsight make of GenerateContent's
\* return; a direct GenerateContent call gets it as it is
Returned(text, err) ==
  CASE gkind = "chat" /\ err # "nil" ->
         [text |-> getFallbackChatResponse(gsign), err |-> "nil"]
    [] gkind = "insight" /\ err # "nil" ->
         [text |-> getFallbackInsight, err |-> "nil"]
    [] OTHER -> [text |-> text, err |-> err]

\* a call of the API: the prompt is built (never empty for chat and insight)
\* and GenerateContent is entered; an empty prompt returns at once
GenCall(kind, sign, prompt) ==
  /\ gpc \in {"idle", "done"}
  /\ gkind' = kind
  /\ gsign' = sign
  /\ gattempt' = 0
  /\ gdelay' = 0
  /\ gcalls' = 0
  /\ gcancelled' = FALSE
  /\ ghttp' = NoResponse
  /\ IF prompt = ""
       THEN /\ gpc' = "done"
            /\ gret' = [text |-> "", err |-> "ErrInvalidPrompt"]
       ELSE /\ gpc' = "call"
            /\ gret' = [text |-> "", err |-> "none"]
  /\ UNCHANGED nonClient

\* c.client.Models.GenerateContent answers (its context is not cancelled)
GenAnswer(text) ==
  /\ gpc = "call"
  /\ ~gcancelled
  /\ gpc' = "done"
  /\ gcalls' = gcalls + 1
  /\ gret' = Returned(text, "nil")
  /\ UNCHANGED <<gkind, gsign, gattempt, gdelay, gcancelled, ghttp>>
  /\ UNCHANGED nonClient

\* (a plausible slip: the loop bound tested with <=)
GenErrorOneMore ==
  /\ gpc = "call"
  /\ gattempt' = gattempt + 1
  /\ gcalls' = gcalls + 1
  /\ IF gattempt + 1 <= maxRetries
       THEN gpc' = "backoff" /\ UNCHANGED gret
       ELSE gpc' = "done" /\ gret' = Returned("", "ErrAIUnavailable")
  /\ UNCHANGED <<gkind, gsign, gdelay, gcancelled, ghttp>>
  /\ UNCHANGED nonClient

\* c.client.Models.GenerateContent fails (as it does under a cancelled
\* context): next attempt, or give up
GenError ==
  /\ gpc = "call"
  /\ gattempt' = gattempt + 1
  /\ gcalls' = gcalls + 1
  /\ IF gattempt + 1 < maxRetries
       THEN gpc' = "backoff" /\ UNCHANGED gret
       ELSE gpc' = "done" /\ gret' = Returned("", "ErrAIUnavailable")
  /\ UNCHANGED <<gkind, gsign, gdelay, gcancelled, ghttp>>
  /\ UNCHANGED nonClient

\* time.Sleep(c.baseDelay * 1<<(attempt-1)), then the next attempt
GenBackoff ==
  /\ gpc = "backoff"
  /\ gdelay' = baseDelay * 2^(gattempt - 1)
  /\ gpc' = "call"
  /\ UNCHANGED <<gkind, gsign, gattempt, gret, gcalls, gcancelled, ghttp>>
  /\ UNCHANGED nonClient

\* the caller cancels the ctx it gave to the call
GenCancel ==
  /\ gpc \in {"call", "backoff"}
  /\ ~gcancelled
  /\ gcancelled' = TRUE
  /\ UNCHANGED <<gpc, gkind, gsign, gattempt, gdelay, gret, gcalls, ghttp>>
  /\ UNCHANGED nonClient

\* the chat handler's answer to a Result{Data, Error} it received
Respond(data, err) ==
  IF err # "nil"
    THEN IF data # ""
      THEN [status |-> 200, message |-> "AI response generated (fallback)",
            response |-> data]
      ELSE [status |-> 500, message |-> "Failed to generate AI response",
            response |-> ""]
    ELSE [status |-> 200, message |-> "AI response generated", response |-> data]

\* the queue's Processor has returned GenerateChatResponse's (response, err),
\* the worker has sent it as Result{Data: response, Error: err} and the
\* handler answers it
ChatRespond ==
  /\ gpc = "done"
  /\ gkind = "chat"
  /\ ghttp = NoResponse
  /\ ghttp' = Respond(gret.text, gret.err)
  /\ UNCHANGED <<gpc, gkind, gsign, gattempt, gdelay, gret, gcalls, gcancelled>>
  /\ UNCHANGED nonClient

\* the worker's own results, which carry an error and no data (the request
\* context was cancelled, or the processor panicked), answered by the handler
ChatRespondFailure(err) ==
  /\ gpc = "idle"
  /\ ghttp = NoResponse
  /\ ghttp' = Respond("", err)
  /\ UNCHANGED <<gpc, gkind, gsign, gattempt, gdelay, gret, gcalls, gcancelled>>
  /\ UNCHANGED nonClient

GNext ==
  \/ \E sign \in Signs : GenCall("chat", sign, "prompt")
  \/ GenCall("insight", "", "prompt")
  \/ \E prompt \in {"", "prompt"} : GenCall("content", "", prompt)
  \/ \E text \in Texts : GenAnswer(text)
  \/ GenError
  \/ GenBackoff
  \/ GenCancel
  \/ ChatRespond
  \/ \E err \in {"ctxErr", "internal"} : ChatRespondFailure(err)

(***************************************************************************)
(* ratelimiter.RateLimiter: a mutex-guarded wrapper of a rate.Limiter      *)
(* (golang.org/x/time/rate), whose reservation arithmetic is reproduced    *)
(* here.  Time is in ticks; tokens are counted in units of 1/LimScale so   *)
(* that every limit used divides evenly.                                   *)
(***************************************************************************)
LimScale == TicksPerToken

\* the arguments of NewRateLimiter, and the ones SetLimit is called with
InitialLimit ==
  [maxRequests |-> MaxRequests, interval |-> MaxRequests * TicksPerToken]
FasterLimit ==
  [maxRequests |-> MaxRequests + 1, interval |-> MaxRequests + 1]
LimConfigs == {InitialLimit, FasterLimit}

\* rps := float64(maxRequests) / interval.Seconds(), kept as its inverse
PerOf(cfg) == cfg.interval \div cfg.maxRequests

TokensFromDuration(d, per) == (d * LimScale) \div per
DurationFromTokens(tk, per) == (tk * per + LimScale - 1) \div LimScale

\* rate.Limiter.advance: the tokens at time t, capped at the burst
Advance(t) ==
  LET tk == limTokens + TokensFromDuration(t - limLast, limPer)
  IN  IF tk > limBurst * LimScale THEN limBurst * LimScale ELSE tk

\* NewRateLimiter
NewRateLimiter(cfg) ==
  /\ rlMaxRequests = cfg.maxRequests
  /\ rlInterval = cfg.interval
  /\ limPer = PerOf(cfg)
  /\ limBurst = cfg.maxRequests
  /\ limTokens = cfg.maxRequests * LimScale
  /\ limLast = 0
  /\ limLastEvent = 0

LInit ==
  /\ NewRateLimiter(InitialLimit)
  /\ muLocked = "no"
  /\ slArg = InitialLimit
  /\ lpc = [a \in Acquirers |-> "idle"]
  /\ lact = [a \in Acquirers |-> 0]
  /\ lresPer = [a \in Acquirers |-> 0]
  /\ lnow = 0
  /\ acquired = [t \in 0..LimMaxTime |-> 0]
  /\ seen = <<PerOf(InitialLimit), InitialLimit.maxRequests>>
  /\ setLimits = 0

\* the idle acquirers are interchangeable: the first of them moves
FirstIdle(a) ==
  /\ lpc[a] = "idle"
  /\ \A b \in Acquirers : b < a => lpc[b] # "idle"

Granted == acquired' = [acquired EXCEPT ![lnow] = @ + 1]

\* (a plausible slip: return rl.limiter.Tokens() >= 1, which takes nothing)
AllowPeeks(a) ==
  /\ FirstIdle(a)
  /\ muLocked = "no"
  /\ IF Advance(lnow) - LimScale >= 0
       THEN /\ Granted
            /\ seen' = <<limPer, limBurst>>
       ELSE /\ UNCHANGED <<acquired, seen>>
  /\ UNCHANGED <<rlfields, limiter, muLocked, slArg, lpc, lact, lresPer, lnow,
                 setLimits>>
  /\ UNCHANGED nonLimiter

\* Allow: under rl.mu.RLock, limiter.Allow() = reserveN(now, 1, 0).ok
Allow(a) ==
  /\ FirstIdle(a)
  /\ muLocked = "no"
  /\ LET tokens == Advance(lnow) - LimScale IN
     IF tokens >= 0
       THEN /\ limTokens' = tokens
            /\ limLast' = lnow
            /\ limLastEvent' = lnow
            /\ Granted
            /\ seen' = <<limPer, limBurst>>
            /\ UNCHANGED <<limPer, limBurst>>
       ELSE /\ UNCHANGED <<limiter, acquired, seen>>
  /\ UNCHANGED <<rlfields, muLocked, slArg, lpc, lact, lresPer, lnow,
                 setLimits>>
  /\ UNCHANGED nonLimiter

\* Wait, lines 46-48: rl.limiter is read under RLock, which is then released
WaitEnter(a) ==
  /\ FirstIdle(a)
  /\ muLocked = "no"
  /\ lpc' = [lpc EXCEPT ![a] = "wait"]
  /\ UNCHANGED <<rlfields, limiter, muLocked, slArg, lact, lresPer,
                 lnow, lhist>>
  /\ UNCHANGED nonLimiter

\* Wait, line 50: limiter.Wait(ctx) with no lock of rl held.  A context
\* already done fails; otherwise a token is reserved (the context has no
\* deadline) and the call returns at once or sleeps until timeToAct.
WaitReserve(a) ==
  /\ lpc[a] = "wait"
  /\ \E cancelled \in BOOLEAN :
       IF cancelled \/ 1 > limBurst
         THEN /\ lpc' = [lpc EXCEPT ![a] = "idle"]
              /\ UNCHANGED <<limiter, lact, lresPer, lhist>>
         ELSE LET tokens == Advance(lnow) - LimScale
                  delay == IF tokens < 0
                             THEN DurationFromTokens(0 - tokens, limPer)
                             ELSE 0
              IN  /\ lnow + delay <= LimMaxTime  \* waits the clock can see end
                  /\ limTokens' = tokens
                  /\ limLast' = lnow
                  /\ limLastEvent' = lnow + delay
                  /\ UNCHANGED <<limPer, limBurst, setLimits>>
                  /\ seen' = <<limPer, limBurst>>
                  /\ IF delay = 0
                       THEN /\ lpc' = [lpc EXCEPT ![a] = "idle"]
                            /\ Granted
                            /\ UNCHANGED <<lact, lresPer>>
                       ELSE /\ lpc' = [lpc EXCEPT ![a] = "sleep"]
                            /\ lact' = [lact EXCEPT ![a] = lnow + delay]
                            /\ lresPer' = [lresPer EXCEPT ![a] = limPer]
                            /\ UNCHANGED acquired
  /\ UNCHANGED <<rlfields, muLocked, slArg, lnow>>
  /\ UNCHANGED nonLimiter

\* the reservation's timer fires: Wait returns nil
WaitWake(a) ==
  /\ lpc[a] = "sleep"
  /\ lnow >= lact[a]
  /\ lpc' = [lpc EXCEPT ![a] = "idle"]
  /\ lact' = [lact EXCEPT ![a] = 0]
  /\ lresPer' = [lresPer EXCEPT ![a] = 0]
  /\ Granted
  /\ UNCHANGED <<rlfields, limiter, muLocked, slArg, lnow, seen, setLimits>>
  /\ UNCHANGED nonLimiter

\* the context is cancelled before the timer fires: the reservation is
\* cancelled (Reservation.CancelAt gives back what nobody reserved on top of
\* it) and Wait returns the context's error
WaitCancel(a) ==
  /\ lpc[a] = "sleep"
  /\ lnow < lact[a]
  /\ LET restore == LimScale
                      - TokensFromDuration(limLastEvent - lact[a], lresPer[a])
         tk == Advance(lnow) + restore
         prevEvent == lact[a] - lresPer[a]
     IN  IF restore <= 0
           THEN UNCHANGED limiter
           ELSE /\ limTokens' = IF tk > limBurst * LimScale
                                  THEN limBurst * LimScale ELSE tk
                /\ limLast' = lnow
                /\ limLastEvent' = IF lact[a] = limLastEvent /\ prevEvent >= lnow
                                     THEN prevEvent ELSE limLastEvent
                /\ UNCHANGED <<limPer, limBurst>>
  /\ lpc' = [lpc EXCEPT ![a] = "idle"]
  /\ lact' = [lact EXCEPT ![a] = 0]
  /\ lresPer' = [lresPer EXCEPT ![a] = 0]
  /\ UNCHANGED <<rlfields, muLocked, slArg, lnow, lhist>>
  /\ UNCHANGED nonLimiter

\* SetLimit, lines 74-78: rl.mu.Lock, then limiter.SetLimit(rps)
SetLimitRate(cfg) ==
  /\ muLocked = "no"
  /\ setLimits < MaxSetLimits
  /\ cfg # [maxRequests |-> rlMaxRequests, interval |-> rlInterval]
  /\ muLocked' = "SetLimit"
  /\ slArg' = cfg
  /\ limTokens' = Advance(lnow)
  /\ limLast' = lnow
  /\ limPer' = PerOf(cfg)
  /\ setLimits' = setLimits + 1
  /\ UNCHANGED <<rlfields, limBurst, limLastEvent, lpc, lact, lresPer,
                 lnow, acquired, seen>>
  /\ UNCHANGED nonLimiter

\* SetLimit, lines 79-82: limiter.SetBurst, the two fields, Unlock
SetLimitBurst ==
  /\ muLocked = "SetLimit"
  /\ limTokens' = Advance(lnow)
  /\ limLast' = lnow
  /\ limBurst' = slArg.maxRequests
  /\ rlMaxRequests' = slArg.maxRequests
  /\ rlInterval' = slArg.interval
  /\ muLocked' = "no"
  /\ UNCHANGED <<limPer, limLastEvent, slArg, lpc, lact, lresPer, lnow,
                 lhist>>
  /\ UNCHANGED nonLimiter

\* the clock; a timer that is due fires before time moves on
LTick ==
  /\ lnow < LimMaxTime
  /\ \A a \in Acquirers : lpc[a] = "sleep" => lact[a] > lnow
  /\ lnow' = lnow + 1
  /\ UNCHANGED <<rlfields, limiter, muLocked, slArg, lpc, lact, lresPer,
                 lhist>>
  /\ UNCHANGED nonLimiter

LNext ==
  \/ \E a \in Acquirers : Allow(a)
  \/ \E a \in Acquirers : WaitEnter(a)
  \/ \E a \in Acquirers : WaitReserve(a)
  \/ \E a \in Acquirers : WaitWake(a)
  \/ \E a \in Acquirers : WaitCancel(a)
  \/ \E cfg \in LimConfigs : SetLimitRate(cfg)
  \/ SetLimitBurst
  \/ LTick

(***************************************************************************)
(* middleware.RateLimiter: the per-principal sliding window at the ingress.*)
(***************************************************************************)
IInit ==
  /\ requests = [id \in Ids |-> 0]
  /\ timestamps = [p \in Records |-> <<>>]
  /\ ipc = [k \in Ingress |-> "idle"]
  /\ iid = [k \in Ingress |-> "none"]
  /\ iptr = [k \in Ingress |-> 0]
  /\ iret = [k \in Ingress |-> FALSE]
  /\ inow = 0
  /\ icalls = 0
  /\ allowed = [id \in Ids |-> [t \in 0..IngMaxTime |-> 0]]

\* the records in use: in the map, or in the hand of a call
Live(req, ptr) == {req[id] : id \in Ids} \cup {ptr[k] : k \in Ingress}

\* a record nobody refers to any more is garbage (and its slot is free)
Collected(ts, req, ptr) ==
  [p \in Records |-> IF p \in Live(req, ptr) THEN ts[p] ELSE <<>>]

\* allow, lines 59-67: under rl.mu, the principal's record is looked up, or
\* created and entered in the map
allowLookup(k, id) ==
  /\ ipc[k] = "idle"
  /\ \A j \in Ingress : j < k => ipc[j] # "idle"
  /\ icalls < IngCalls
  /\ icalls' = icalls + 1
  /\ IF requests[id] = 0
       THEN LET fresh == CHOOSE p \in Records :
                           /\ p \notin Live(requests, iptr)
                           /\ \A q \in Records :
                                q \notin Live(requests, iptr) => p <= q
            IN  /\ requests' = [requests EXCEPT ![id] = fresh]
                /\ iptr' = [iptr EXCEPT ![k] = fresh]
       ELSE /\ iptr' = [iptr EXCEPT ![k] = requests[id]]
            /\ UNCHANGED requests
  /\ ipc' = [ipc EXCEPT ![k] = "got"]
  /\ iid' = [iid EXCEPT ![k] = id]
  /\ iret' = [iret EXCEPT ![k] = FALSE]
  /\ UNCHANGED <<timestamps, inow, allowed>>
  /\ UNCHANGED nonIngress

RECURSIVE validTimestampsInclusive(_, _)
\* (a plausible slip: !ts.Before(windowStart) for ts.After(windowStart))
validTimestampsInclusive(ts, windowStart) ==
  IF ts = <<>> THEN <<>>
  ELSE IF Head(ts) >= windowStart
         THEN <<Head(ts)>> \o validTimestampsInclusive(Tail(ts), windowStart)
         ELSE validTimestampsInclusive(Tail(ts), windowStart)

RECURSIVE validTimestamps(_, _)
\* allow, lines 76-81: the loop that keeps the timestamps after windowStart
validTimestamps(ts, windowStart) ==
  IF ts = <<>> THEN <<>>
  ELSE IF Head(ts) > windowStart
         THEN <<Head(ts)>> \o validTimestamps(Tail(ts), windowStart)
         ELSE validTimestamps(Tail(ts), windowStart)

\* allow, lines 69-91: under the record's own mutex
allowCheck(k) ==
  /\ ipc[k] = "got"
  /\ LET valid == validTimestamps(timestamps[iptr[k]], inow - window)
         ptr == [iptr EXCEPT ![k] = 0]
     IN  /\ IF Len(valid) >= limit
              THEN /\ timestamps' = Collected(
                        [timestamps EXCEPT ![iptr[k]] = valid], requests, ptr)
                   /\ iret' = [iret EXCEPT ![k] = FALSE]
                   /\ UNCHANGED allowed
              ELSE /\ timestamps' = Collected(
                        [timestamps EXCEPT ![iptr[k]] = Append(valid, inow)],
                        requests, ptr)
                   /\ iret' = [iret EXCEPT ![k] = TRUE]
                   /\ allowed' = [allowed EXCEPT ![iid[k]][inow] = @ + 1]
         /\ iptr' = ptr
  /\ ipc' = [ipc EXCEPT ![k] = "idle"]
  /\ iid' = [iid EXCEPT ![k] = "none"]
  /\ UNCHANGED <<requests, inow, icalls>>
  /\ UNCHANGED nonIngress

\* cleanup, line 107: the record has no recent request
Stale(p) ==
  IF Len(timestamps[p]) = 0
    THEN TRUE
    ELSE timestamps[p][Len(timestamps[p])] < inow - window

\* cleanup, lines 100-112: one sweep, under rl.mu and each record's mutex
cleanup ==
  /\ \E id \in Ids : requests[id] # 0 /\ Stale(requests[id])
  /\ LET req == [id \in Ids |->
                   IF requests[id] # 0 /\ Stale(requests[id])
                     THEN 0 ELSE requests[id]]
     IN  /\ requests' = req
         /\ timestamps' = Collected(timestamps, req, iptr)
  /\ UNCHANGED <<ipc, iid, iptr, iret, inow, icalls, allowed>>
  /\ UNCHANGED nonIngress

ITick ==
  /\ inow < IngMaxTime
  /\ inow' = inow + 1
  /\ UNCHANGED <<requests, timestamps, ipc, iid, iptr, iret, icalls, allowed>>
  /\ UNCHANGED nonIngress

INext ==
  \/ \E k \in Ingress : \E id \in Ids : allowLookup(k, id)
  \/ \E k \in Ingress : allowCheck(k)
  \/ cleanup
  \/ ITick

(***************************************************************************)
(* websocket.Hub: one goroutine (Run) owning the rooms, fed through three  *)
(* unbuffered channels; each client has a buffered Send mailbox that its   *)
(* WritePump drains.                                                       *)
(***************************************************************************)
HubInit ==
  /\ rooms = <<>>
  /\ hstate = "running"
  /\ hevents = [r \in RoomIds |-> 0]
  /\ clpc = [c \in Clients |-> "new"]
  /\ croom = [c \in Clients |-> "a"]
  /\ sent = 0
  /\ send = [c \in Clients |-> <<>>]
  /\ sendClosed = [c \in Clients |-> FALSE]

\* len(client.Send)
Mailbox(c) == Len(send[c])

\* the rooms map with client set cs stored under key r
WithRoom(rm, r, cs) == [x \in DOMAIN rm \cup {r} |-> IF x = r THEN cs ELSE rm[x]]
WithoutRoom(rm, r) == [x \in DOMAIN rm \ {r} |-> rm[x]]

\* JoinRoom, lines 92-104: the client is built and offered on h.register
Connect(c, r) ==
  /\ clpc[c] = "new"
  /\ \A b \in Clients : b < c => clpc[b] # "new"
  /\ c = 1 => r = "a"
  /\ clpc' = [clpc EXCEPT ![c] = "registering"]
  /\ croom' = [croom EXCEPT ![c] = r]
  /\ UNCHANGED <<rooms, hstate, hevents, sent, send, sendClosed>>
  /\ UNCHANGED nonHub

\* ReadPump, lines 166-180: a frame arrives and is offered on h.broadcast
ClientSend(c) ==
  /\ clpc[c] = "joined"
  /\ sent < MaxBroadcasts
  /\ sent' = sent + 1
  /\ clpc' = [clpc EXCEPT ![c] = "broadcasting"]
  /\ UNCHANGED <<rooms, hstate, hevents, croom, send, sendClosed>>
  /\ UNCHANGED nonHub

\* ReadPump, lines 160-163, 168-172: the read fails, the client is offered
\* on h.unregister
ClientLeave(c) ==
  /\ clpc[c] = "joined"
  /\ clpc' = [clpc EXCEPT ![c] = "unregistering"]
  /\ UNCHANGED <<rooms, hstate, hevents, croom, sent, send, sendClosed>>
  /\ UNCHANGED nonHub

\* WritePump, lines 190-195: one message is taken from client.Send
ClientRead(c) ==
  /\ clpc[c] \in {"joined", "broadcasting", "unregistering"}
  /\ Mailbox(c) > 0
  /\ send' = [send EXCEPT ![c] = Tail(@)]
  /\ UNCHANGED <<rooms, hstate, hevents, clpc, croom, sent, sendClosed>>
  /\ UNCHANGED nonHub

\* (a plausible slip: client.Send <- message without the select's default,
\* which waits for room in the mailbox)
BroadcastBlocking(rm, closedNow, r, msg) ==
  /\ r \in DOMAIN rm => \A c \in rm[r] : Mailbox(c) < SendCap
  /\ rooms' = rm
  /\ sendClosed' = [c \in Clients |-> sendClosed[c] \/ c \in closedNow]
  /\ send' = [c \in Clients |->
                     IF r \in DOMAIN rm /\ c \in rm[r]
                       THEN Append(send[c], msg) ELSE send[c]]
  /\ hstate' = "running"

\* (a plausible slip: return, or break, in the default branch, so that the
\* clients after the evicted one are skipped)
BroadcastStopsAtEviction(rm, closedNow, r, msg) ==
  LET members == IF r \in DOMAIN rm THEN rm[r] ELSE {}
      full == {c \in members : Mailbox(c) >= SendCap}
  IN  /\ rooms' = IF r \in DOMAIN rm THEN WithRoom(rm, r, members \ full) ELSE rm
      /\ sendClosed' = [c \in Clients |->
                          sendClosed[c] \/ c \in closedNow \/ c \in full]
      /\ send' = [c \in Clients |->
                         IF c \in members /\ full = {}
                           THEN Append(send[c], msg) ELSE send[c]]
      /\ hstate' = "running"

\* broadcastToRoom(r, msg), run on the map rm in which the clients of
\* closedNow have just had their mailbox closed: to every client of the room
\* the message is sent if its mailbox has room, and a client whose mailbox
\* is full is closed and deleted.  A send on, or a close of, a closed
\* channel panics.
Broadcast(rm, closedNow, r, msg) ==
  LET isClosed(c) == sendClosed[c] \/ c \in closedNow
      members == IF r \in DOMAIN rm THEN rm[r] ELSE {}
      full == {c \in members : Mailbox(c) >= SendCap}
  IN  /\ rooms' = IF r \in DOMAIN rm THEN WithRoom(rm, r, members \ full) ELSE rm
      /\ sendClosed' = [c \in Clients |-> isClosed(c) \/ c \in full]
      /\ send' = [c \in Clients |->
                         IF c \in members \ full
                           THEN Append(send[c], msg) ELSE send[c]]
      /\ hstate' = IF \E c \in members : isClosed(c)
                     THEN "panicked" ELSE "running"

Message(type, c) == [type |-> type, from |-> c, n |-> hevents[croom[c]] + 1]

\* (a plausible slip: the join event is broadcast before the client is put
\* in the room, so that the newcomer does not get it)
HubRegisterBroadcastFirst(c) ==
  /\ hstate = "running"
  /\ clpc[c] = "registering"
  /\ hevents' = [hevents EXCEPT ![croom[c]] = @ + 1]
  /\ LET r == croom[c]
         cs == IF r \in DOMAIN rooms THEN rooms[r] ELSE {}
         full == {d \in cs : Mailbox(d) >= SendCap}
     IN  /\ rooms' = WithRoom(rooms, r, (cs \ full) \cup {c})
         /\ sendClosed' = [d \in Clients |-> sendClosed[d] \/ d \in full]
         /\ send' = [d \in Clients |->
                       IF d \in cs \ full
                         THEN Append(send[d], Message("join", c)) ELSE send[d]]
         /\ UNCHANGED hstate
  /\ clpc' = [clpc EXCEPT ![c] = "joined"]
  /\ UNCHANGED <<croom, sent>>
  /\ UNCHANGED nonHub

\* Run, lines 63-82: case client := <-h.register
HubRegister(c) ==
  /\ hstate = "running"
  /\ clpc[c] = "registering"
  /\ hevents' = [hevents EXCEPT ![croom[c]] = @ + 1]
  /\ LET r == croom[c]
         cs == IF r \in DOMAIN rooms THEN rooms[r] ELSE {}
     IN  Broadcast(WithRoom(rooms, r, cs \cup {c}), {}, r, Message("join", c))
  /\ clpc' = [clpc EXCEPT ![c] = "joined"]
  /\ UNCHANGED <<croom, sent>>
  /\ UNCHANGED nonHub

\* (a plausible slip: the unregister closes the mailbox without looking the
\* client up in its room, so that a client the broadcast evicted is closed again)
HubUnregisterNoLookup(c) ==
  /\ hstate = "running"
  /\ clpc[c] = "unregistering"
  /\ hevents' = [hevents EXCEPT ![croom[c]] = @ + 1]
  /\ LET r == croom[c]
         registered == r \in DOMAIN rooms /\ c \in rooms[r]
         rm == IF ~registered THEN rooms
               ELSE IF rooms[r] = {c} THEN WithoutRoom(rooms, r)
               ELSE WithRoom(rooms, r, rooms[r] \ {c})
     IN  IF sendClosed[c]
           THEN /\ hstate' = "panicked"
                /\ rooms' = rm
                /\ UNCHANGED <<send, sendClosed>>
           ELSE Broadcast(rm, {c}, r, Message("leave", c))
  /\ clpc' = [clpc EXCEPT ![c] = "gone"]
  /\ UNCHANGED <<croom, sent>>
  /\ UNCHANGED nonHub

\* Run, lines 84-108: case client := <-h.unregister
HubUnregister(c) ==
  /\ hstate = "running"
  /\ clpc[c] = "unregistering"
  /\ hevents' = [hevents EXCEPT ![croom[c]] = @ + 1]
  /\ LET r == croom[c]
         registered == r \in DOMAIN rooms /\ c \in rooms[r]
         rm == IF ~registered THEN rooms
               ELSE IF rooms[r] = {c} THEN WithoutRoom(rooms, r)
               ELSE WithRoom(rooms, r, rooms[r] \ {c})
     IN  IF registered /\ sendClosed[c]
           THEN /\ hstate' = "panicked"
                /\ rooms' = rm
                /\ UNCHANGED <<send, sendClosed>>
           ELSE Broadcast(rm, IF registered THEN {c} ELSE {}, r,
                          Message("leave", c))
  /\ clpc' = [clpc EXCEPT ![c] = "gone"]
  /\ UNCHANGED <<croom, sent>>
  /\ UNCHANGED nonHub

\* (a plausible slip: the message is sent to the clients of every room)
HubBroadcastEveryRoom(c) ==
  /\ hstate = "running"
  /\ clpc[c] = "broadcasting"
  /\ hevents' = [hevents EXCEPT ![croom[c]] = @ + 1]
  /\ LET members == UNION {rooms[r] : r \in DOMAIN rooms}
         full == {d \in members : Mailbox(d) >= SendCap}
     IN  /\ rooms' = [r \in DOMAIN rooms |-> rooms[r] \ full]
         /\ sendClosed' = [d \in Clients |-> sendClosed[d] \/ d \in full]
         /\ send' = [d \in Clients |->
                       IF d \in members \ full
                         THEN Append(send[d], Message("message", c)) ELSE send[d]]
         /\ UNCHANGED hstate
  /\ clpc' = [clpc EXCEPT ![c] = "joined"]
  /\ UNCHANGED <<croom, sent>>
  /\ UNCHANGED nonHub

\* Run, lines 110-111: case broadcastMsg := <-h.broadcast
HubBroadcast(c) ==
  /\ hstate = "running"
  /\ clpc[c] = "broadcasting"
  /\ hevents' = [hevents EXCEPT ![croom[c]] = @ + 1]
  /\ Broadcast(rooms, {}, croom[c], Message("message", c))
  /\ clpc' = [clpc EXCEPT ![c] = "joined"]
  /\ UNCHANGED <<croom, sent>>
  /\ UNCHANGED nonHub

\* one turn of the hub loop
HubStep == \E c \in Clients : HubRegister(c) \/ HubUnregister(c) \/ HubBroadcast(c)

HubNext ==
  \/ \E c \in Clients : \E r \in RoomIds : Connect(c, r)
  \/ \E c \in Clients : ClientSend(c)
  \/ \E c \in Clients : ClientLeave(c)
  \/ \E c \in Clients : ClientRead(c)
  \/ \E c \in Clients : HubRegister(c)
  \/ \E c \in Clients : HubUnregister(c)
  \/ \E c \in Clients : HubBroadcast(c)

(***************************************************************************)
(* auth-service FriendshipService: one friend request, from user A to user *)
(* B.  Every repository call is one MongoDB operation and one step here;   *)
(* AcceptFriendship runs its two updates in one transaction.               *)
(***************************************************************************)
FInit ==
  /\ request = "none"
  /\ friend_ids = [u \in Users |-> {}]
  /\ pending_sent = [u \in Users |-> {}]
  /\ pending_received = [u \in Users |-> {}]
  /\ friends_count = [u \in Users |-> 0]
  /\ fpc = [k \in Accepters |-> "idle"]
  /\ fuser = [k \in Accepters |-> "A"]
  /\ ffinal = [k \in Accepters |-> FALSE]
  /\ fret = [k \in Accepters |-> ""]

SenderID == "A"
ReceiverID == "B"

\* SendFriendRequest(A, B): refused between friends, else the request
\* document is created pending and both pending lists are updated
SendFriendRequest ==
  /\ request = "none"
  /\ ReceiverID \notin friend_ids[SenderID]
  /\ request' = "pending"
  /\ pending_sent' = [pending_sent EXCEPT ![SenderID] = @ \cup {ReceiverID}]
  /\ pending_received' = [pending_received EXCEPT ![ReceiverID] = @ \cup {SenderID}]
  /\ UNCHANGED <<friend_ids, friends_count, fpc, fuser, ffinal, fret>>
  /\ UNCHANGED nonFriends

\* AcceptFriendRequest and RejectFriendRequest up to the receiver check:
\* FindRequestByID looks the document up by id alone, whatever its status
FindRequest(k, userID, found) ==
  /\ fpc[k] = "idle"
  /\ fuser' = [fuser EXCEPT ![k] = userID]
  /\ ffinal' = [ffinal EXCEPT ![k] = request \in {"accepted", "rejected"}]
  /\ IF request = "none"
       THEN /\ fpc' = [fpc EXCEPT ![k] = "done"]
            /\ fret' = [fret EXCEPT ![k] = "ErrRequestNotFound"]
       ELSE IF ReceiverID # userID
         THEN /\ fpc' = [fpc EXCEPT ![k] = "done"]
              /\ fret' = [fret EXCEPT ![k] = "ErrUnauthorized"]
         ELSE /\ fpc' = [fpc EXCEPT ![k] = found]
              /\ fret' = fret
  /\ UNCHANGED <<request, friend_ids, pending_sent, pending_received, friends_count>>
  /\ UNCHANGED nonFriends

AcceptFind(k, userID) == FindRequest(k, userID, "found")

RejectFind(k) == FindRequest(k, ReceiverID, "rfound")

\* FriendshipRepository.RejectFriendship(userID, request.SenderID): one
\* transaction, $pull from both pending lists
RejectFriendship(k) ==
  /\ fpc[k] = "rfound"
  /\ pending_received' = [pending_received EXCEPT ![fuser[k]] = @ \ {SenderID}]
  /\ pending_sent' = [pending_sent EXCEPT ![SenderID] = @ \ {fuser[k]}]
  /\ fpc' = [fpc EXCEPT ![k] = "pulled"]
  /\ UNCHANGED <<request, friend_ids, friends_count, fuser, ffinal, fret>>
  /\ UNCHANGED nonFriends

\* UpdateRequestStatus(reqObjID, StatusRejected), and return nil
RejectStatus(k) ==
  /\ fpc[k] = "pulled"
  /\ request' = "rejected"
  /\ fpc' = [fpc EXCEPT ![k] = "done"]
  /\ fret' = [fret EXCEPT ![k] = "rejected"]
  /\ UNCHANGED <<friend_ids, pending_sent, pending_received, friends_count, fuser, ffinal>>
  /\ UNCHANGED nonFriends

\* UserRepository.IncrementFriendsCount(userID, 1): $inc
IncrementFriendsCount(count, userID) == [count EXCEPT ![userID] = @ + 1]

\* FriendshipRepository.AcceptFriendship(userID, request.SenderID)
AcceptFriendship(k) ==
  /\ fpc[k] = "found"
  /\ friend_ids' = [friend_ids EXCEPT ![fuser[k]] = @ \cup {SenderID},
                                      ![SenderID] = @ \cup {fuser[k]}]
  /\ pending_received' = [pending_received EXCEPT ![fuser[k]] = @ \ {SenderID}]
  /\ pending_sent' = [pending_sent EXCEPT ![SenderID] = @ \ {fuser[k]}]
  /\ fpc' = [fpc EXCEPT ![k] = "linked"]
  /\ UNCHANGED <<request, friends_count, fuser, ffinal, fret>>
  /\ UNCHANGED nonFriends

\* UpdateRequestStatus(reqObjID, StatusAccepted)
AcceptStatus(k) ==
  /\ fpc[k] = "linked"
  /\ request' = "accepted"
  /\ fpc' = [fpc EXCEPT ![k] = "marked"]
  /\ UNCHANGED <<friend_ids, pending_sent, pending_received, friends_count, fuser, ffinal, fret>>
  /\ UNCHANGED nonFriends

\* the increment for the accepting user
AcceptCountUser(k) ==
  /\ fpc[k] = "marked"
  /\ friends_count' = IncrementFriendsCount(friends_count, fuser[k])
  /\ fpc' = [fpc EXCEPT ![k] = "counted"]
  /\ UNCHANGED <<request, friend_ids, pending_sent, pending_received, fuser, ffinal, fret>>
  /\ UNCHANGED nonFriends

\* the increment for the sender, and return nil
AcceptCountSender(k) ==
  /\ fpc[k] = "counted"
  /\ friends_count' = IncrementFriendsCount(friends_count, SenderID)
  /\ fpc' = [fpc EXCEPT ![k] = "done"]
  /\ fret' = [fret EXCEPT ![k] = "ok"]
  /\ UNCHANGED <<request, friend_ids, pending_sent, pending_received, fuser, ffinal>>
  /\ UNCHANGED nonFriends

FNext ==
  \/ SendFriendRequest
  \/ \E k \in Accepters : \E u \in Users : AcceptFind(k, u)
  \/ \E k \in Accepters : AcceptFriendship(k)
  \/ \E k \in Accepters : AcceptStatus(k)
  \/ \E k \in Accepters : AcceptCountUser(k)
  \/ \E k \in Accepters : AcceptCountSender(k)
  \/ \E k \in Accepters : RejectFind(k)
  \/ \E k \in Accepters : RejectFriendship(k)
  \/ \E k \in Accepters : RejectStatus(k)

(***************************************************************************)
(* chat-service MessageRepository.FindBySessionID and the client that      *)
(* pages through one session with it.  An ObjectID is a number below       *)
(* 16^HexLen; a cursor is its hex string, a sequence of digit characters.  *)
(***************************************************************************)
HexLen == 2
HexDigits == <<"0", "1", "2", "3", "4", "5", "6", "7",
               "8", "9", "a", "b", "c", "d", "e", "f">>
ObjectIDs == 1..MaxMsgs
SessionIDs == {"s", "t"}

\* ObjectID.Hex
RECURSIVE Hex(_, _)
Hex(id, n) ==
  IF n = 0 THEN <<>> ELSE Append(Hex(id \div 16, n - 1), HexDigits[(id % 16) + 1])

DigitValue(ch) == (CHOOSE i \in 1..16 : HexDigits[i] = ch) - 1

\* primitive.ObjectIDFromHex: an error (-1) unless the string is HexLen hex
\* digits
RECURSIVE HexValue(_)
HexValue(str) ==
  IF Len(str) = 0 THEN 0
  ELSE 16 * HexValue(SubSeq(str, 1, Len(str) - 1)) + DigitValue(str[Len(str)])

ObjectIDFromHex(str) ==
  IF Len(str) # HexLen \/ \E i \in 1..Len(str) : \A j \in 1..16 : HexDigits[j] # str[i]
    THEN -1
    ELSE HexValue(str)

\* Find with sort {_id: -1} and a limit: the n largest ids of the matching
\* documents, largest first
RECURSIVE FindSorted(_, _)
FindSorted(ids, n) ==
  IF ids = {} \/ n = 0 THEN <<>>
  ELSE LET top == CHOOSE i \in ids : \A j \in ids : j <= i
       IN <<top>> \o FindSorted(ids \ {top}, n - 1)

\* FindBySessionID whose cursor filter is $lte
FindBySessionIDInclusive(sessionID, cursor, lim) ==
  LET cursorID == ObjectIDFromHex(cursor)
      filter == {i \in ObjectIDs : /\ messages[i] = sessionID
                                   /\ (cursor # <<>> /\ cursorID # -1) => i <= cursorID}
      found == FindSorted(filter, lim + 1)
      page == IF Len(found) > lim THEN SubSeq(found, 1, lim) ELSE found
  IN [messages |-> page,
      next_cursor |-> IF Len(found) > lim THEN Hex(page[Len(page)], HexLen) ELSE <<>>]

FindBySessionID(sessionID, cursor, lim) ==
  LET cursorID == ObjectIDFromHex(cursor)
      filter == {i \in ObjectIDs : /\ messages[i] = sessionID
                                   /\ (cursor # <<>> /\ cursorID # -1) => i < cursorID}
      found == FindSorted(filter, lim + 1)
      page == IF Len(found) > lim THEN SubSeq(found, 1, lim) ELSE found
  IN [messages |-> page,
      next_cursor |-> IF Len(found) > lim THEN Hex(page[Len(page)], HexLen) ELSE <<>>]

\* an empty collection, and a client that has not asked yet
PInit ==
  /\ messages = [i \in ObjectIDs |-> ""]
  /\ plimit = 0
  /\ pcursor = <<>>
  /\ pages = <<>>

\* MessageRepository.Create before the paging starts: InsertOne gives the new
\* document the next, larger, ObjectID
Create(sessionID) ==
  /\ pages = <<>>
  /\ \E i \in ObjectIDs :
       /\ messages[i] = ""
       /\ \A j \in ObjectIDs : j < i => messages[j] # ""
       /\ messages' = [messages EXCEPT ![i] = sessionID]
  /\ UNCHANGED <<plimit, pcursor, pages>>
  /\ UNCHANGED nonPaging

Drained == Len(pages) > 0 /\ pcursor = <<>>

\* ChatHandler.GetMessages for session "s": the first call with the empty
\* cursor, every later one with the cursor and the limit of the last page
GetMessages(lim) ==
  /\ ~Drained
  /\ Len(pages) > 0 => lim = plimit
  /\ plimit' = lim
  /\ LET res == FindBySessionID("s", pcursor, lim)
     IN /\ pages' = Append(pages, [messages |-> res.messages,
                                   next_cursor |-> res.next_cursor,
                                   has_more |-> res.next_cursor # <<>>])
        /\ pcursor' = res.next_cursor
  /\ UNCHANGED messages
  /\ UNCHANGED nonPaging

PNext ==
  \/ \E sessionID \in SessionIDs : Create(sessionID)
  \/ \E lim \in 1..MaxLimit : GetMessages(lim)

(***************************************************************************)
(* social-service PostRepository: posts, likes and the feed.  Every        *)
(* repository call is one MongoDB operation and one step here.  The likes  *)
(* collection has the unique index {post_id, user_id} of models/post.go.   *)
(***************************************************************************)
NoPost == [exists |-> FALSE, author_zodiac |-> "", likes_count |-> 0]
NoQuery == [SortBy |-> "", ZodiacSign |-> "", Limit |-> 0]

SInit ==
  /\ posts = [i \in PostIDs |-> NoPost]
  /\ likes = {}
  /\ kpc = [k \in Likers |-> "idle"]
  /\ kpost = [k \in Likers |-> 0]
  /\ kret = [k \in Likers |-> ""]
  /\ feedQuery = NoQuery
  /\ feedCursor = <<>>
  /\ feedPages = <<>>

\* SocialService.PublishPost: InsertOne gives the post the next ObjectID
PublishPost(zodiacSign) ==
  /\ feedPages = <<>>
  /\ \A k \in Likers : kpc[k] = "idle"
  /\ \E i \in PostIDs :
       /\ ~posts[i].exists
       /\ \A j \in PostIDs : j < i => posts[j].exists
       /\ posts' = [posts EXCEPT ![i] = [exists |-> TRUE, author_zodiac |-> zodiacSign,
                                         likes_count |-> 0]]
  /\ UNCHANGED <<likes, kpc, kpost, kret, feedQuery, feedCursor, feedPages>>
  /\ UNCHANGED nonSocial

\* UpdateOne {_id: postID} $inc likes_count
IncLikesCount(postID, delta) ==
  [posts EXCEPT ![postID].likes_count = @ + delta]

\* LikePost up to the increment: InsertOne into likes
LikeInsert(k, postID, userID) ==
  /\ kpc[k] = "idle"
  /\ \A j \in Likers : j < k => kpc[j] # "idle"
  /\ posts[postID].exists
  /\ feedPages = <<>>
  /\ kpost' = [kpost EXCEPT ![k] = postID]
  /\ IF <<postID, userID>> \in likes
       THEN /\ kpc' = [kpc EXCEPT ![k] = "done"]
            /\ kret' = [kret EXCEPT ![k] = "already liked"]
            /\ likes' = likes
       ELSE /\ kpc' = [kpc EXCEPT ![k] = "inserted"]
            /\ kret' = kret
            /\ likes' = likes \cup {<<postID, userID>>}
  /\ UNCHANGED <<posts, feedQuery, feedCursor, feedPages>>
  /\ UNCHANGED nonSocial

\* LikePost: the $inc by one, and return
LikeCount(k) ==
  /\ kpc[k] = "inserted"
  /\ posts' = IncLikesCount(kpost[k], 1)
  /\ kpc' = [kpc EXCEPT ![k] = "done"]
  /\ kret' = [kret EXCEPT ![k] = "ok"]
  /\ UNCHANGED <<likes, kpost, feedQuery, feedCursor, feedPages>>
  /\ UNCHANGED nonSocial

\* UnlikePost up to the decrement: DeleteOne from likes
UnlikeDelete(k, postID, userID) ==
  /\ kpc[k] = "idle"
  /\ \A j \in Likers : j < k => kpc[j] # "idle"
  /\ posts[postID].exists
  /\ feedPages = <<>>
  /\ kpost' = [kpost EXCEPT ![k] = postID]
  /\ IF <<postID, userID>> \notin likes
       THEN /\ kpc' = [kpc EXCEPT ![k] = "done"]
            /\ kret' = [kret EXCEPT ![k] = "like not found"]
            /\ likes' = likes
       ELSE /\ kpc' = [kpc EXCEPT ![k] = "deleted"]
            /\ kret' = kret
            /\ likes' = likes \ {<<postID, userID>>}
  /\ UNCHANGED <<posts, feedQuery, feedCursor, feedPages>>
  /\ UNCHANGED nonSocial

\* UnlikePost: the $inc by minus one, and return
UnlikeCount(k) ==
  /\ kpc[k] = "deleted"
  /\ posts' = IncLikesCount(kpost[k], -1)
  /\ kpc' = [kpc EXCEPT ![k] = "done"]
  /\ kret' = [kret EXCEPT ![k] = "ok"]
  /\ UNCHANGED <<likes, kpost, feedQuery, feedCursor, feedPages>>
  /\ UNCHANGED nonSocial

LikeNext ==
  \/ \E z \in {"Aries"} : PublishPost(z)
  \/ \E k \in Likers : \E i \in PostIDs : \E u \in LikeUsers : LikeInsert(k, i, u)
  \/ \E k \in Likers : LikeCount(k)
  \/ \E k \in Likers : \E i \in PostIDs : \E u \in LikeUsers : UnlikeDelete(k, i, u)
  \/ \E k \in Likers : UnlikeCount(k)

\* Find with the sort of GetFeed and a limit: by _id descending, or for
\* most_liked by likes_count descending and then _id descending
RECURSIVE FeedSorted(_, _, _)
FeedSorted(ids, n, sortBy) ==
  IF ids = {} \/ n = 0 THEN <<>>
  ELSE LET Before(i, j) ==
             IF sortBy = "most_liked" /\ posts[i].likes_count # posts[j].likes_count
               THEN posts[i].likes_count > posts[j].likes_count
               ELSE i >= j
           top == CHOOSE i \in ids : \A j \in ids : Before(i, j)
       IN <<top>> \o FeedSorted(ids \ {top}, n - 1, sortBy)

\* PostRepository.GetFeed
GetFeedPage(query, cursor) ==
  LET cursorID == ObjectIDFromHex(cursor)
      filter == {i \in PostIDs :
                   /\ posts[i].exists
                   /\ query.ZodiacSign # "" => posts[i].author_zodiac = query.ZodiacSign
                   /\ (cursor # <<>> /\ cursorID # -1) => i < cursorID}
      found == FeedSorted(filter, query.Limit + 1, query.SortBy)
      page == IF Len(found) > query.Limit THEN SubSeq(found, 1, query.Limit) ELSE found
  IN [posts |-> page,
      next_cursor |-> IF Len(found) > query.Limit
                        THEN Hex(page[Len(page)], HexLen) ELSE <<>>]

FeedDrained == Len(feedPages) > 0 /\ feedCursor = <<>>

FeedQueries ==
  [SortBy : {"latest", "most_liked"}, ZodiacSign : {"", "Aries"}, Limit : 1..MaxLimit]

\* SocialHandler.GetFeed: the first call with the empty cursor, every later
\* one with the same query and the cursor of the last page
GetFeed(query) ==
  /\ ~FeedDrained
  /\ Len(feedPages) > 0 => query = feedQuery
  /\ feedQuery' = query
  /\ LET res == GetFeedPage(query, feedCursor)
     IN /\ feedPages' = Append(feedPages, res.posts)
        /\ feedCursor' = res.next_cursor
  /\ UNCHANGED <<posts, likes, kpc, kpost, kret>>
  /\ UNCHANGED nonSocial

\* a LikePost call that runs alone, from its insert to its return
LikePost(postID, userID) ==
  /\ feedPages = <<>>
  /\ posts[postID].exists
  /\ <<postID, userID>> \notin likes
  /\ likes' = likes \cup {<<postID, userID>>}
  /\ posts' = IncLikesCount(postID, 1)
  /\ UNCHANGED <<kpc, kpost, kret, feedQuery, feedCursor, feedPages>>
  /\ UNCHANGED nonSocial

FeedNext ==
  \/ \E z \in {"Aries", "Leo"} : PublishPost(z)
  \/ \E i \in PostIDs : \E u \in LikeUsers : LikePost(i, u)
  \/ \E q \in FeedQueries : GetFeed(q)

Init ==
  QInit /\ CBInit /\ GInit /\ LInit /\ IInit /\ HubInit /\ FInit /\ PInit
  /\ SInit

QSpec == Init /\ [][QNext]_vars

\* the queue with one request and with Stop called again, by callers of their
\* own, during or after the shutdown
StopNext ==
  \/ Start
  \/ EnqCheck(1)
  \/ EnqOffer(1)
  \/ EnqCountEnq(1)
  \/ HandlerRecv(1)
  \/ HandlerDeadline(1)
  \/ \E w \in Wrk : WorkerDequeue(w)
  \/ \E w \in Wrk : WorkerQueueClosed(w)
  \/ \E w \in Wrk : WorkerCtxDone(w)
  \/ \E w \in Wrk : WorkerCheckCtx(w)
  \/ \E w \in Wrk : WorkerProcessed(w)
  \/ \E w \in Wrk : WorkerSend(w)
  \/ \E w \in Wrk : WorkerSendCancel(w)
  \/ \E s \in AllStp : StopMark(s)
  \/ \E s \in AllStp : StopClose(s)
  \/ \E s \in AllStp : StopDone(s)
  \/ \E s \in AllStp : StopTimeout(s)

StopSpec == Init /\ [][StopNext]_vars

CBSpec == Init /\ [][CBNext]_vars

GSpec == Init /\ [][GNext]_vars

LSpec == Init /\ [][LNext]_vars

ISpec == Init /\ [][INext]_vars

HubSpec == Init /\ [][HubNext]_vars

FSpec == Init /\ [][FNext]_vars

PSpec == Init /\ [][PNext]_vars

LikeSpec == Init /\ [][LikeNext]_vars

FeedSpec == Init /\ [][FeedNext]_vars

\* the hub goroutine is scheduled: a turn of its loop that can be taken is
\* taken; nothing is assumed of the clients
HubLiveSpec == Init /\ [][HubNext]_vars /\ WF_vars(HubStep)

(***************************************************************************)
(* The queue with the scheduling the Go runtime gives its workers: a       *)
(* worker goroutine that can complete its result write does so.            *)
(***************************************************************************)
QLiveSpec ==
  /\ Init
  /\ [][QNext]_vars
  /\ \A w \in Wrk :
       WF_vars(WorkerSend(w) \/ WorkerSendCancel(w) \/ WorkerSendPanic(w))

(***************************************************************************)
(* The queue with a handler whose select takes a case that is ready: the   *)
(* reply, or the deadline, which always comes.                             *)
(***************************************************************************)
QHandlerSpec ==
  /\ Init
  /\ [][QNext]_vars
  /\ \A r \in Reqs : WF_vars(HandlerRecv(r) \/ HandlerDeadline(r))

(***************************************************************************)
(* Properties of the request queue.                                        *)
(***************************************************************************)
\* requests dequeued by a worker whose processed/failed counter is not yet incremented
InFlight == Cardinality({w \in Wrk : wpc[w] \in {"picked", "proc"}})

\* Enqueue calls that have placed their request and not yet counted it
Uncounted == Cardinality({r \in Reqs : hpc[r] = "countEnq"})

\* the requests the channel holds
Queued == {queue[i] : i \in 1..Len(queue)}

SendStates == {"send", "sendCancel", "sendPanic"}

\* C1: the channel never holds more than QueueSize requests, and an Enqueue
\* whose offer finds the (open) channel holding QueueSize requests adds
\* nothing and returns ErrQueueFull.
C1_QueueBound ==
  /\ [](Len(queue) <= QueueSize)
  /\ [][\A r \in Reqs :
          (hpc[r] = "offer" /\ hpc'[r] # "offer" /\ Len(queue) = QueueSize /\ ~chanClosed)
            => (hpc'[r] = "countDrop" /\ queue' = queue)]_vars
  /\ [][\A r \in Reqs :
          (hpc[r] = "countDrop" /\ hpc'[r] # "countDrop")
            => (result'[r] = "ErrQueueFull" /\ hpc'[r] = "busy429" /\ queue' = queue)]_vars

\* an Enqueue has returned ErrQueueFull from a full, open queue
C1_Witness ==
  \E r \in Reqs : /\ result[r] = "ErrQueueFull"
                  /\ Len(queue) = QueueSize
                  /\ r \notin Queued
                  /\ ~chanClosed

\* C2: every Enqueue ends by returning nil, ErrQueueFull or ErrQueueClosed,
\* also when it runs concurrently with Stop (it never ends in a panic on the
\* closed channel).
C2_EnqueueReturns ==
  \A r \in Reqs :
    /\ hpc[r] # "panicked"
    /\ hpc[r] \in {"waiting", "answered", "timeout408", "busy429", "closed500"}
         => result[r] \in {"nil", "ErrQueueFull", "ErrQueueClosed"}

\* C3: once q.closed is set it stays set, and an Enqueue that starts then
\* returns ErrQueueClosed without touching the channel or a counter; its
\* request is never in the channel nor with a worker.
C3_ClosedRejects ==
  /\ [][closed => closed']_vars
  /\ [][\A r \in Reqs :
          (hpc[r] = "new" /\ hpc'[r] # "new" /\ closed)
            => /\ hpc'[r] = "closed500"
               /\ result'[r] = "ErrQueueClosed"
               /\ queue' = queue
               /\ counters' = counters]_vars
  /\ [](\A r \in Reqs :
          hpc[r] = "closed500"
            => (r \notin Queued /\ \A w \in Wrk : wreq[w] # r))

\* an Enqueue was refused by the closed queue
C3_Witness == \E r \in Reqs : hpc[r] = "closed500" /\ result[r] = "ErrQueueClosed"

\* C4: in every state, enqueued = processed + failed + dropped + inFlight + depth.
C4_Accounting ==
  totalEnqueued = totalProcessed + totalFailed + totalDropped + InFlight + Len(queue)

\* What the counters of the code do satisfy in every state: the accepted
\* requests, counted or about to be, are the processed, the failed, those in
\* flight and those in the channel; the refused ones are counted apart.
AcceptedAccounting ==
  /\ totalEnqueued + Uncounted = totalProcessed + totalFailed + InFlight + Len(queue)
  /\ totalDropped = Cardinality({r \in Reqs : hpc[r] = "busy429"})

\* C5: a worker writing the result of a request whose handler has stopped
\* reading (deadline or client gone) gets back to its dequeue loop, on each of
\* its three paths.
C5_WorkerNotWedged ==
  \A w \in Wrk :
    (wpc[w] \in SendStates /\ hpc[wreq[w]] = "timeout408") ~> (wpc[w] = "idle")

\* a worker is back in its loop having left a result for a handler that had gone
C5_Witness ==
  \E w \in Wrk : \E r \in Reqs :
    /\ wpc[w] = "idle"
    /\ hpc[r] = "timeout408"
    /\ reply[r] \in {<<"ctxErr">>, <<"internal">>}

(***************************************************************************)
(* Properties of the circuit breaker.                                      *)
(***************************************************************************)
\* caller c starts an Execute / has its fn return in this step
Starts(c) == cpc[c] = "idle" /\ calls' = calls + 1 /\ actor' = c
Returns(c, res) == cpc[c] = "fn" /\ cpc'[c] = "idle" /\ cres'[c] = res

\* C6: an Execute that finds the breaker Open within resetTimeout of
\* lastFailureTime returns ErrCircuitOpen without calling fn and leaves state,
\* failures, lastFailureTime and halfOpenReqs as they were.
C6_OpenRejects ==
  [][\A c \in Callers :
       (Starts(c) /\ state = "open" /\ now - lastFailureTime <= ResetTimeout)
         => /\ cpc'[c] = "idle"
            /\ cres'[c] = "ErrCircuitOpen"
            /\ cbstate' = cbstate]_vars

\* a call was rejected by the open breaker
C6_Witness ==
  \E c \in Callers : /\ cres[c] = "ErrCircuitOpen"
                     /\ cpc[c] = "idle"
                     /\ state = "open"
                     /\ now - lastFailureTime <= ResetTimeout

\* C7: from Closed the breaker opens exactly on the failure that brings the
\* failures since the last success (or Reset) to MaxFailures; a success seen
\* in Closed sets the counter to 0; a Closed breaker admits every call.
C7_OpensAtMaxFailures ==
  /\ [][state = "closed"
          => /\ state' \in {"closed", "open"}
             /\ state' = "open"
                  <=> (sinceSuccess' = sinceSuccess + 1 /\ sinceSuccess' = MaxFailures)]_vars
  /\ [][\A c \in Callers :
          (Returns(c, "ok") /\ state = "closed") => (failures' = 0 /\ state' = "closed")]_vars
  /\ [][\A c \in Callers : (Starts(c) /\ state = "closed") => cpc'[c] = "fn"]_vars

\* the breaker opened from Closed after a success had reset the counter
C7_Witness ==
  /\ state = "open"
  /\ failures = MaxFailures
  /\ probeFailAt < 0
  /\ \E c \in Callers : cres[c] = "ok"

\* C8: an Execute that finds the breaker Open more than resetTimeout after
\* lastFailureTime is admitted as a probe; if that probe, alone in flight,
\* succeeds, the breaker is Closed with failures = 0 and halfOpenReqs = 0, and
\* from then on it stays Closed and admits every Execute until MaxFailures
\* failures in a row.
C8_Recovery ==
  /\ [][\A c \in Callers :
          (Starts(c) /\ state = "open" /\ now - lastFailureTime > ResetTimeout)
            => (cpc'[c] = "fn" /\ state' = "half-open")]_vars
  /\ [][\A c \in Callers :
          (quietProbe = c /\ Returns(c, "ok"))
            => (state' = "closed" /\ failures' = 0 /\ halfOpenReqs' = 0 /\ recovered')]_vars
  /\ [](recovered => (state = "closed" /\ sinceSuccess < MaxFailures))
  /\ [][\A c \in Callers : (Starts(c) /\ recovered) => cpc'[c] = "fn"]_vars

\* after a successful quiet probe a later call is inside fn
C8_Witness ==
  /\ recovered
  /\ state = "closed"
  /\ \E c \in Callers : cpc[c] = "fn"

\* C9: while the breaker is HalfOpen at most HalfOpenMaxReqs calls have been
\* let through to fn since the Open -> HalfOpen transition, the call that
\* made the transition included.
C9_ProbeLimit == state = "half-open" => admitted <= HalfOpenMaxReqs

\* C10: a failure seen in HalfOpen sends the breaker to Open with
\* lastFailureTime = now, and (short of a Reset) every Execute within
\* resetTimeout of that failure returns ErrCircuitOpen without calling fn.
C10_ProbeFailureReopens ==
  /\ [][\A c \in Callers :
          (Returns(c, "fail") /\ state = "half-open")
            => (state' = "open" /\ lastFailureTime' = now)]_vars
  /\ [][\A c \in Callers :
          (Starts(c) /\ probeFailAt >= 0 /\ now - probeFailAt <= ResetTimeout)
            => (cpc'[c] = "idle" /\ cres'[c] = "ErrCircuitOpen")]_vars

\* a call was rejected within resetTimeout of a failed probe
C10_Witness ==
  /\ probeFailAt >= 0
  /\ now - probeFailAt <= ResetTimeout
  /\ state = "open"
  /\ lastFailureTime = probeFailAt
  /\ cres[actor] = "ErrCircuitOpen"
  /\ cpc[actor] = "idle"

(***************************************************************************)
(* Properties of the Gemini client and of the token-bucket limiter.        *)
(***************************************************************************)
\* a step in which the provider is invoked (and answers or fails)
ProviderCall == gpc = "call" /\ gpc' # "call"

\* C11: every provider call of GenerateContent is made inside a breaker
\* Execute (some caller is in the protected function) and after a token was
\* acquired from the shared limiter.
C11_GuardedCalls ==
  [][ProviderCall =>
       /\ \E c \in Callers : cpc[c] = "fn"
       /\ \E t \in 0..LimMaxTime : acquired[t] > 0]_vars

RECURSIVE AcquiredIn(_, _)
\* the acquisitions that succeeded at the ticks s..e
AcquiredIn(s, e) == IF s > e THEN 0 ELSE acquired[s] + AcquiredIn(s + 1, e)

\* C12: with the limiter as constructed (rate r = maxRequests / interval,
\* burst b = maxRequests), any window of length T >= 1 holds at most
\* r*T + b successful acquisitions (both sides multiplied by interval).
C12_RateCeiling ==
  setLimits = 0 =>
    \A s \in 0..LimMaxTime : \A e \in (s + 1)..LimMaxTime :
      AcquiredIn(s, e) * rlInterval
        <= rlMaxRequests * (e - s) + rlMaxRequests * rlInterval

\* the whole run is a window filled to the ceiling: the burst at the start,
\* then tokens as fast as they are refilled
C12_Witness ==
  /\ setLimits = 0
  /\ lnow = LimMaxTime
  /\ acquired[LimMaxTime] > 0
  /\ AcquiredIn(0, LimMaxTime) * rlInterval
       = rlMaxRequests * LimMaxTime + rlMaxRequests * rlInterval

\* C13: every acquisition is granted under the limit and burst of one
\* configuration, the constructor's or a SetLimit's, never a mix of two.
C13_NoMixedConfig ==
  seen \in {<<PerOf(cfg), cfg.maxRequests>> : cfg \in LimConfigs}

\* C14: GenerateChatResponse and GenerateInsight return a nil error; when
\* every attempt failed, the chat text is the tag's table entry (the
\* non-empty default for an unknown tag) and the insight is the generic one.
C14_FallbackOnFailure ==
  gpc = "done" /\ gkind \in {"chat", "insight"} =>
    /\ gret.err = "nil"
    /\ gattempt = maxRetries =>
         /\ gret.text # ""
         /\ gkind = "chat" /\ gsign \in Zodiac => gret.text = fallbacks[gsign]
         /\ gkind = "chat" /\ gsign \notin Zodiac =>
              gret.text = "Halo! Ada yang bisa aku bantu? Cerita aja santai."
         /\ gkind = "insight" => gret.text = getFallbackInsight

\* a chat call for an unknown tag has failed three times and returned
C14_Witness ==
  /\ gpc = "done"
  /\ gkind = "chat"
  /\ gsign \notin Zodiac
  /\ gattempt = maxRetries
  /\ gret.err = "nil"
  /\ gret.text # ""

(***************************************************************************)
(* Properties of the ingress limiter.                                      *)
(***************************************************************************)
RECURSIVE AllowedIn(_, _, _)
\* the calls of principal id answered true at the ticks s..e
AllowedIn(id, s, e) ==
  IF s > e \/ s > IngMaxTime THEN 0
  ELSE allowed[id][s] + AllowedIn(id, s + 1, e)

\* C15: in any window of `window` consecutive ticks, at most `limit` calls
\* of one principal are answered true.
C15_IngressFairness ==
  \A id \in Ids : \A s \in 0..IngMaxTime :
    AllowedIn(id, s, s + window - 1) <= limit

\* C16: a call of allow prunes its principal's record to the timestamps
\* after now - window, answers true and appends now iff fewer than limit
\* remain, and leaves only timestamps of the trailing window in the record.
C16_AllowPrunesThenAdmits ==
  [][\A k \in Ingress :
       ipc[k] = "got" /\ ipc'[k] = "idle" =>
         LET old == timestamps[iptr[k]]
             new == timestamps'[iptr[k]]
             InWindow(ts) == ts > inow - window
             kept == SelectSeq(old, InWindow)
             after == IF Len(kept) < limit THEN Append(kept, inow) ELSE kept
         IN  /\ iret'[k] = (Len(kept) < limit)
             /\ requests[iid[k]] = iptr[k] => new = after
             /\ \A i \in 1..Len(after) :
                  after[i] > inow - window /\ after[i] <= inow]_vars

\* a call was answered true after the principal's request of tick 0, exactly
\* one window old, had been pruned from its record
C16_Witness ==
  \E k \in Ingress : \E id \in Ids :
    /\ ipc[k] = "idle"
    /\ iret[k]
    /\ inow = window
    /\ allowed[id][0] = limit
    /\ allowed[id][inow] > 0
    /\ requests[id] # 0
    /\ timestamps[requests[id]] = <<inow>>

(***************************************************************************)
(* Properties of the websocket hub.                                        *)
(***************************************************************************)
\* the clients a hub turn for client c's event broadcasts to: the room of c
\* as the turn leaves it before broadcasting
Audience(c) ==
  LET before == IF croom[c] \in DOMAIN rooms THEN rooms[croom[c]] ELSE {}
  IN  CASE clpc[c] = "registering" -> before \cup {c}
        [] clpc[c] = "unregistering" -> before \ {c}
        [] OTHER -> before

\* the hub loop consumes client c's pending event in this step
Consumes(c) ==
  /\ clpc[c] \in {"registering", "unregistering", "broadcasting"}
  /\ clpc'[c] # clpc[c]

\* C17: at every broadcast, a client of the room whose mailbox is full is
\* evicted (mailbox closed, removed from the room, nothing delivered), and
\* every other client of the room gets the message and stays registered --
\* the broadcast that evicts included.
C17_SlowClientEvicted ==
  [][\A c \in Clients : Consumes(c) =>
       \A m \in Audience(c) :
         IF Len(send[m]) >= SendCap
           THEN /\ sendClosed'[m]
                /\ m \notin rooms'[croom[c]]
                /\ send'[m] = send[m]
           ELSE /\ ~sendClosed'[m]
                /\ m \in rooms'[croom[c]]
                /\ Len(send'[m]) = Len(send[m]) + 1
                /\ SubSeq(send'[m], 1, Len(send[m])) = send[m]
                /\ send'[m][Len(send'[m])].n = hevents[croom[c]] + 1
                /\ send'[m][Len(send'[m])].from = c]_vars

\* a client that let its mailbox fill was evicted by a message that its
\* room mate, still registered, received
C17_Witness ==
  \E a \in Clients : \E b \in Clients \ {a} :
    /\ croom[a] = croom[b]
    /\ clpc[a] = "joined" /\ sendClosed[a] /\ Len(send[a]) = SendCap
    /\ croom[a] \in DOMAIN rooms
    /\ rooms[croom[a]] = {b}
    /\ ~sendClosed[b]
    /\ send[b] # <<>>
    /\ send[b][Len(send[b])].type = "message"
    /\ \A i \in 1..Len(send[a]) : send[a][i].n < send[b][Len(send[b])].n

\* C18: the rooms map changes only in a turn of the hub loop, and every
\* client blocked on one of the hub's channels is eventually served,
\* whatever the clients do with their mailboxes.
C18_HubConsumes ==
  /\ [][rooms' # rooms => HubStep]_vars
  /\ \A c \in Clients :
       \A st \in {"registering", "unregistering", "broadcasting"} :
         (clpc[c] = st) ~> (clpc[c] # st)

\* the hub went on to serve a leave after evicting a client with a full mailbox
C18_Witness ==
  \E a \in Clients :
    /\ sendClosed[a] /\ Len(send[a]) = SendCap /\ clpc[a] = "joined"
    /\ \E b \in Clients \ {a} : clpc[b] = "gone" /\ croom[b] = croom[a]
    /\ hstate = "running"

(***************************************************************************)
(* Properties of the friendship service.                                   *)
(***************************************************************************)
AcceptsQuiet == \A k \in Accepters : fpc[k] \in {"idle", "done"}

\* C19: once accepts of the request by B have completed and none is in
\* progress, A and B are in each other's friend set and each friends_count
\* is exactly one more than before the first accept (zero); and whenever no
\* accept is in progress, every friends_count is the size of the friend set.
C19_FriendshipAtomicity ==
  AcceptsQuiet =>
    /\ \A u \in Users : friends_count[u] = Cardinality(friend_ids[u])
    /\ (\E k \in Accepters : fret[k] = "ok") =>
         /\ ReceiverID \in friend_ids[SenderID]
         /\ SenderID \in friend_ids[ReceiverID]
         /\ friends_count[SenderID] = 1
         /\ friends_count[ReceiverID] = 1

(***************************************************************************)
(* Properties of message paging.                                           *)
(***************************************************************************)
RECURSIVE Flatten(_)
Flatten(ps) ==
  IF Len(ps) = 0 THEN <<>> ELSE ps[1].messages \o Flatten(Tail(ps))

SessionMessages == {i \in ObjectIDs : messages[i] = "s"}

\* C20: paging an unchanging session from the empty cursor along the
\* returned cursors gives pages of at most limit messages, whose messages
\* taken together are in strictly decreasing id order (so none twice) and,
\* once the cursor comes back empty, are all the messages of the session;
\* a page's next cursor is non-empty, and has_more true, exactly when
\* messages older than the page's last message remain.
C20_CursorPagination ==
  LET all == Flatten(pages)
  IN /\ \A p \in 1..Len(pages) :
          /\ Len(pages[p].messages) <= plimit
          /\ pages[p].has_more = (pages[p].next_cursor # <<>>)
          /\ pages[p].has_more =
               (/\ Len(pages[p].messages) > 0
                /\ \E i \in SessionMessages :
                     i < pages[p].messages[Len(pages[p].messages)])
     /\ \A i, j \in 1..Len(all) : i < j => all[i] > all[j]
     /\ {all[i] : i \in 1..Len(all)} \subseteq SessionMessages
     /\ Drained => {all[i] : i \in 1..Len(all)} = SessionMessages

\* a session of more messages than two full pages has been drained
C20_Witness ==
  /\ Drained
  /\ Len(pages) >= 3
  /\ Cardinality(SessionMessages) > 2 * plimit
  /\ \E i \in ObjectIDs : messages[i] = "t"

(***************************************************************************)
(* Properties of the feed and of likes.                                    *)
(***************************************************************************)
RECURSIVE FlattenFeed(_)
FlattenFeed(ps) ==
  IF Len(ps) = 0 THEN <<>> ELSE ps[1] \o FlattenFeed(Tail(ps))

Matching ==
  {i \in PostIDs : /\ posts[i].exists
                   /\ feedQuery.ZodiacSign # "" =>
                        posts[i].author_zodiac = feedQuery.ZodiacSign}

\* C21: paging an unchanging feed from the empty cursor along the returned
\* cursors, with a fixed filter and sort, returns no post twice and, once
\* the cursor comes back empty, has returned every matching post.
C21_FeedPagination ==
  LET all == FlattenFeed(feedPages)
  IN /\ \A i, j \in 1..Len(all) : i # j => all[i] # all[j]
     /\ FeedDrained => {all[i] : i \in 1..Len(all)} = Matching

LikesQuiet == \A k \in Likers : kpc[k] \in {"idle", "done"}

\* C27: under any interleaving of LikePost and UnlikePost calls, likes_count
\* of a post is never negative, and whenever no call is in progress it is
\* the number of like records stored for the post.
C27_LikesCount ==
  \A i \in PostIDs :
    /\ posts[i].likes_count >= 0
    /\ LikesQuiet =>
         posts[i].likes_count = Cardinality({l \in likes : l[1] = i})

(***************************************************************************)
(* Properties of the AI chat handler.                                      *)
(***************************************************************************)
\* the HTTP status of the handler's answer, where its position fixes it
HttpStatus(r) ==
  CASE hpc[r] = "busy429" -> 429
    [] hpc[r] = "closed500" -> 500
    [] hpc[r] = "timeout408" -> 408
    [] OTHER -> 0

\* C22: a handler whose Enqueue returned ErrQueueFull has answered 429 and
\* one whose Enqueue returned ErrQueueClosed has answered 503, both at once,
\* without a wait on the reply channel.
C22_EnqueueStatus ==
  \A r \in Reqs :
    /\ result[r] = "ErrQueueFull" => HttpStatus(r) = 429
    /\ result[r] = "ErrQueueClosed" => HttpStatus(r) = 503

Responded(r) == hpc[r] \in {"answered", "timeout408"}

\* C24: an admitted request gets exactly one response: the handler that
\* waits ends either with the worker's result, which was then there to be
\* received, or with 408; once it has responded its response stands,
\* whatever arrives later; and a handler that waits does respond.
C24_OneResponse ==
  /\ [][\A r \in Reqs :
          /\ Responded(r) => hpc'[r] = hpc[r]
          /\ (hpc[r] = "waiting" /\ hpc'[r] # "waiting") => Responded(r)'
          /\ (hpc[r] = "waiting" /\ hpc'[r] = "answered") =>
               \/ reply[r] # <<>> /\ reply'[r] = Tail(reply[r])
               \/ \E w \in Wrk : wreq[w] = r /\ wreq'[w] = 0]_vars
  /\ \A r \in Reqs : (hpc[r] = "waiting") ~> Responded(r)

\* a result has arrived for a handler that had already answered 408
C24_Witness ==
  \E r \in Reqs : hpc[r] = "timeout408" /\ reply[r] # <<>>

(***************************************************************************)
(* Properties of shutdown and of the worker's failure paths.               *)
(***************************************************************************)
Started == \A w \in Wrk : wpc[w] # "off"

\* the requests Enqueue has put into the channel (it has returned nil, or is
\* about to count and return)
Placed == {r \in Reqs : result[r] = "nil" \/ hpc[r] = "countEnq"}

\* C25: when the Stop of a started queue returns nil because its workers
\* have finished, the channel is empty, every worker has terminated holding
\* no request, and every request Enqueue accepted has been taken by a worker
\* and counted as processed or failed.
C25_GracefulStop ==
  [][\A s \in Stp :
       (spc[s] = "wait" /\ spc'[s] = "nil" /\ Started) =>
         /\ queue = <<>>
         /\ \A w \in Wrk : wpc[w] = "stopped" /\ wreq[w] = 0
         /\ \A r \in Reqs : result[r] = "nil" => hpc[r] # "new"
         /\ totalProcessed + totalFailed = Cardinality(Placed)]_vars

\* Stop has returned nil after its workers drained requests
C25_Witness ==
  /\ \E s \in Stp : spc[s] = "nil"
  /\ \A w \in Wrk : wpc[w] = "stopped"
  /\ totalProcessed > 0
  /\ totalFailed > 0

\* the request r is given the result v: into its reply channel, or straight
\* to its handler waiting on an unbuffered one
Given(r, v) ==
  \/ reply'[r] = Append(reply[r], v)
  \/ hpc[r] = "waiting" /\ hpc'[r] = "answered" /\ reply'[r] = reply[r]

\* C26: a worker whose processor panics counts the request as failed, once,
\* and not as processed; it then writes one 'internal error' result to the
\* request's reply channel and is back in its loop, free to dequeue.
C26_PanicIsolation ==
  [][\A w \in Wrk :
       /\ (wpc[w] = "proc" /\ wpc'[w] \notin {"proc", "send"}) =>
            /\ wpc'[w] = "sendPanic"
            /\ totalFailed' = totalFailed + 1
            /\ totalProcessed' = totalProcessed
       /\ (wpc[w] = "sendPanic" /\ wpc'[w] # "sendPanic") =>
            /\ wpc'[w] = "idle"
            /\ Given(wreq[w], "internal")
            /\ counters' = counters
       /\ wpc[w] = "sendPanic" => ENABLED WorkerSendPanic(w)]_vars

InReply(r, v) == \E i \in 1..Len(reply[r]) : reply[r][i] = v

\* the worker processes a later request while the 'internal error' result of
\* an earlier one waits for its handler
C26_Witness ==
  \E w \in Wrk : \E r \in Reqs :
    wpc[w] = "proc" /\ wreq[w] # r /\ InReply(r, "internal") /\ totalProcessed = 0

\* C28: a worker that finds the context of the request it dequeued cancelled
\* counts one failure, does not call the processor, writes a result carrying
\* the context's error to the reply channel and is back in its loop.
C28_CancelledSkipped ==
  [][\A w \in Wrk :
       /\ (wpc[w] = "picked" /\ wpc'[w] # "picked") =>
            \/ wpc'[w] = "proc" /\ counters' = counters
            \/ /\ wpc'[w] = "sendCancel"
               /\ totalFailed' = totalFailed + 1
               /\ totalProcessed' = totalProcessed
       /\ (wpc[w] = "sendCancel" /\ wpc'[w] # "sendCancel") =>
            /\ wpc'[w] = "idle"
            /\ Given(wreq[w], "ctxErr")
            /\ counters' = counters
       /\ wpc[w] = "sendCancel" => ENABLED WorkerSendCancel(w)
       /\ (wpc'[w] = "proc" /\ wpc[w] # "proc") => totalFailed' = totalFailed]_vars

\* the worker has taken a later request after writing the cancellation
\* result of an earlier one
C28_Witness ==
  \E w \in Wrk : \E r \in Reqs :
    wpc[w] = "picked" /\ wreq[w] # r /\ InReply(r, "ctxErr")

(***************************************************************************)
(* Properties of the chat path from the provider to the HTTP response.     *)
(***************************************************************************)
\* C23: a chat request whose provider failed on every attempt is answered
\* 200 with the fallback text of its zodiac tag and with a message that
\* tells it from a live answer; a result with an error and no data is
\* answered 500.
C23_FallbackLabelled ==
  /\ (gkind = "chat" /\ gattempt = maxRetries /\ ghttp # NoResponse) =>
       /\ ghttp.status = 200
       /\ ghttp.response = getFallbackChatResponse(gsign)
       /\ ghttp.message # Respond("live", "nil").message
  /\ (gpc = "idle" /\ ghttp # NoResponse) => ghttp.status = 500

\* C29: one GenerateContent call invokes the provider at most maxRetries
\* times; it returns at the first answer, with the answer's text; it returns
\* ErrAIUnavailable only after maxRetries failed invocations, and
\* ErrInvalidPrompt for an empty prompt without an invocation; the first
\* backoff of a call is baseDelay and each further one twice the one before.
C29_RetryBudget ==
  /\ [](/\ gcalls <= maxRetries
        /\ (gpc = "done" /\ gkind = "content" /\ gret.err = "nil") =>
             (gcalls = gattempt + 1 /\ gret.text \in Texts)
        /\ (gpc = "done" /\ gkind = "content" /\ gret.err # "nil") =>
             \/ gret.err = "ErrAIUnavailable" /\ gcalls = maxRetries /\ gattempt = maxRetries
             \/ gret.err = "ErrInvalidPrompt" /\ gcalls = 0)
  /\ [][/\ (gcalls' = gcalls + 1 /\ gattempt' = gattempt) => gpc' = "done"
        /\ (gpc = "backoff" /\ gpc' = "call") =>
             gdelay' = IF gdelay = 0 THEN baseDelay ELSE 2 * gdelay]_vars

\* a call answered at its last attempt, after both backoffs
C29_Witness ==
  /\ gkind = "content"
  /\ gpc = "done"
  /\ gret = [text |-> "live", err |-> "nil"]
  /\ gcalls = maxRetries
  /\ gdelay = 2 * baseDelay

\* C30: once the ctx given to GenerateContent is cancelled the call starts
\* no backoff sleep and no provider attempt: it can only return.
C30_CancelStops ==
  [][(gcancelled /\ gcancelled') =>
       (gpc' = gpc \/ gpc' \notin {"backoff", "call"})]_vars

(***************************************************************************)
(* C31: the worker alone writes req.Result, and when it has finished with  *)
(* a request (the result delivered, or dropped after the 5 s timer) the    *)
(* channel is closed; nothing is written to a closed channel.              *)
(***************************************************************************)
Finishes(w) ==
  /\ wpc[w] \in {"send", "sendCancel", "sendPanic"}
  /\ wpc'[w] = "idle"

Written(r) == Len(reply'[r]) > Len(reply[r])

C31_WorkerClosesResult ==
  [][\A r \in Reqs :
       /\ Written(r) => \E w \in Wrk : wreq[w] = r /\ Finishes(w)
       /\ Written(r) => ~resultClosed[r]
       /\ \A w \in Wrk : (wreq[w] = r /\ Finishes(w)) => resultClosed'[r]]_vars

(***************************************************************************)
(* C32: a register adds the client to its room and the join event is the   *)
(* latest message in the mailbox of every client the room then has, the    *)
(* new one included; an unregister of a registered client removes it,      *)
(* closes its mailbox, deletes the room it leaves empty, and the leave     *)
(* event is the latest message of every client that remains.  (A client    *)
(* the event found with a full mailbox is no longer of the room: it was    *)
(* closed and removed by the broadcast.)                                   *)
(***************************************************************************)
Registers(c) == clpc[c] = "registering" /\ clpc'[c] = "joined"

Unregisters(c) == clpc[c] = "unregistering" /\ clpc'[c] = "gone"

IsRegistered(c) == croom[c] \in DOMAIN rooms /\ c \in rooms[croom[c]]

\* the clients the map has for room r after the step
RoomAfter(r) == IF r \in DOMAIN rooms' THEN rooms'[r] ELSE {}

\* the event of client c is the latest message in d's mailbox after the step
Latest(d, type, c) ==
  /\ send'[d] # <<>>
  /\ send'[d][Len(send'[d])] = Message(type, c)

C32_JoinAndLeave ==
  [][\A c \in Clients :
       /\ Registers(c) =>
            /\ c \in RoomAfter(croom[c])
            /\ \A d \in RoomAfter(croom[c]) : Latest(d, "join", c)
            /\ \A d \in Clients \ RoomAfter(croom[c]) : send'[d] = send[d]
       /\ (Unregisters(c) /\ IsRegistered(c)) =>
            /\ c \notin RoomAfter(croom[c])
            /\ sendClosed'[c]
            /\ send'[c] = send[c]
            /\ rooms[croom[c]] = {c} => croom[c] \notin DOMAIN rooms'
            /\ \A d \in RoomAfter(croom[c]) : Latest(d, "leave", c)]_vars

\* two clients joined room a, the second left: the first, which had read its
\* mailbox, holds the leave event, and the second, which never read, still
\* holds its own join event in a mailbox the unregister closed
C32_Witness ==
  /\ sent = 0 /\ hevents["a"] = 3
  /\ clpc[1] = "joined" /\ clpc[2] = "gone"
  /\ rooms = [r \in {"a"} |-> {1}]
  /\ send[1] = <<[type |-> "leave", from |-> 2, n |-> 3]>>
  /\ send[2] = <<[type |-> "join", from |-> 2, n |-> 2]>>
  /\ sendClosed[2] /\ ~sendClosed[1]

(***************************************************************************)
(* C33: once Stop's timeout has cancelled the master context, a worker in  *)
(* the processor call abandons the request: the only step it takes from    *)
(* there is to terminate, it does not wait for the processor's result.     *)
(***************************************************************************)
C33_TimeoutAbandonsWork ==
  [][\A w \in Wrk :
       (ctxDone /\ wpc[w] = "proc" /\ wpc'[w] # wpc[w]) => wpc'[w] = "stopped"]_vars

(***************************************************************************)
(* C34: the result of a call changes the state of a HalfOpen breaker only  *)
(* if the call was admitted as a half-open probe; the late result of a     *)
(* call admitted while the breaker was Closed leaves HalfOpen as it is.    *)
(***************************************************************************)
ResultRecorded(c) == cpc[c] = "fn" /\ cpc'[c] = "idle"

C34_OnlyProbesLeaveHalfOpen ==
  [][\A c \in Callers :
       (ResultRecorded(c) /\ state = "half-open" /\ state' # "half-open")
         => admittedIn[c] = "half-open"]_vars

(***************************************************************************)
(* C35: in every reachable state of the breaker, whatever the interleaving *)
(* of Execute and Reset calls: Closed implies failures < maxFailures, Open *)
(* and HalfOpen imply failures >= maxFailures, and the half-open counter   *)
(* is at most halfOpenMaxReqs.                                             *)
(***************************************************************************)
C35_BreakerInvariant ==
  /\ state = "closed" => failures < MaxFailures
  /\ state \in {"open", "half-open"} => failures >= MaxFailures
  /\ halfOpenReqs <= HalfOpenMaxReqs

\* the breaker is HalfOpen with a counted probe in flight beside the call that
\* made the transition
C35_Witness ==
  /\ state = "half-open"
  /\ halfOpenReqs > 0
  /\ Cardinality({c \in Callers : admittedIn[c] = "half-open"}) >= 2

(***************************************************************************)
(* C36: whatever the order of register, unregister and broadcast events,   *)
(* the hub closes a mailbox at most once and sends on no mailbox it has    *)
(* closed: the hub loop never panics, a closed mailbox stays closed and    *)
(* gets no further message, and its client is in no room.                  *)
(***************************************************************************)
C36_MailboxClosedOnce ==
  [][/\ hstate' = "running"
     /\ \A c \in Clients : sendClosed[c] =>
          /\ sendClosed'[c]
          /\ Len(send'[c]) <= Len(send[c])
          /\ \A r \in DOMAIN rooms' : c \notin rooms'[r]]_vars

\* a client was evicted (the latest message it holds is older than the event
\* before its leave) and its unregister was served afterwards: its room mate
\* holds the leave event
C36_Witness ==
  \E c \in Clients : \E d \in Clients \ {c} :
    /\ hstate = "running"
    /\ clpc[c] = "gone" /\ sendClosed[c] /\ ~sendClosed[d]
    /\ send[c] # <<>>
    /\ \E i \in 1..Len(send[d]) :
         /\ send[d][i].type = "leave" /\ send[d][i].from = c
         /\ send[c][Len(send[c])].n < send[d][i].n - 1

(***************************************************************************)
(* C37: a call that found the request accepted or rejected already changes *)
(* nothing: every step it takes leaves the friend sets, the pending sets   *)
(* and friends_count of both users as they are.                            *)
(***************************************************************************)
C37_FinalRequest ==
  [][\A k \in Accepters :
       (ffinal[k] /\ fpc'[k] # fpc[k]) =>
         UNCHANGED <<friend_ids, pending_sent, pending_received, friends_count>>]_vars

(***************************************************************************)
(* C38: the events of a room reach its clients in one order, the order in  *)
(* which the hub loop consumed them.  A delivery appends to the mailbox    *)
(* the event the loop consumes in that step, which is an event of the      *)
(* client's own room; and two events that two mailboxes both hold are in   *)
(* the same relative order in both, the order of their consumption.        *)
(***************************************************************************)
Delivered(c) == Len(send'[c]) > Len(send[c])

SameOrder(c, d) ==
  \A i1, i2 \in DOMAIN send[c] : \A j1, j2 \in DOMAIN send[d] :
    (send[c][i1] = send[d][j1] /\ send[c][i2] = send[d][j2]) =>
      /\ (i1 < i2) <=> (j1 < j2)
      /\ (i1 < i2) <=> (send[c][i1].n < send[c][i2].n)

C38_RoomOrder ==
  [][\A c \in Clients :
       /\ Delivered(c) =>
            LET m == send'[c][Len(send'[c])]
            IN  /\ send'[c] = Append(send[c], m)
                /\ croom[m.from] = croom[c]
                /\ m.n = hevents'[croom[c]]
                /\ hevents'[croom[c]] = hevents[croom[c]] + 1
       /\ \A d \in Clients : SameOrder(c, d)']_vars

\* two clients registered in one room hold the same two events, a join and
\* a message, in the same order
C38_Witness ==
  \E r \in DOMAIN rooms : \E c \in rooms[r] : \E d \in rooms[r] \ {c} :
    /\ Len(send[c]) >= 2
    /\ send[c] = send[d]
    /\ send[c][Len(send[c])].type = "message"

(***************************************************************************)
(* C39: whatever the number of Stop calls, one after the other or at the   *)
(* same time, q.queue is closed once: only one call goes past the test of  *)
(* q.closed and closes the channel, which was open; a call that finds      *)
(* q.closed set returns nil and changes nothing; and once q.closed is set, *)
(* Start launches no worker.                                               *)
(***************************************************************************)
ShuttingDown == {s \in AllStp : spc[s] \in {"close", "wait", "timeout"}}

C39_StopIdempotent ==
  [][/\ \A s \in AllStp :
          /\ (spc[s] = "close" /\ spc'[s] = "wait") => (~chanClosed /\ chanClosed')
          /\ (closed /\ spc[s] = "init" /\ spc'[s] # "init") =>
               /\ spc'[s] = "nil"
               /\ UNCHANGED <<queue, chanClosed, closed, ctxDone, counters,
                              wpc, wreq, wout, hvars>>
     /\ Cardinality(ShuttingDown') <= 1
     /\ chanClosed' => closed'
     /\ closed => \A w \in Wrk :
          wpc[w] \in {"off", "stopped"} => wpc'[w] = wpc[w]]_vars

\* a second Stop call has returned nil while the first, which closed the
\* channel, is still waiting for a worker that is in the processor
C39_Witness ==
  \E s \in AllStp : \E t \in AllStp \ {s} :
    /\ spc[s] = "wait" /\ spc[t] = "nil"
    /\ chanClosed
    /\ \E w \in Wrk : wpc[w] = "proc"

====
